---- MODULE Spec2Model ----
(***************************************************************************)
(* Model of the pull-request comment script of delivops/terraform-action:  *)
(* the text-reduction helpers (truncateOutput, processPlanOutput, ...),    *)
(* the hidden comment marker (buildCommentMarker), the assembly of the     *)
(* comment and the list / match / create-or-update protocol on the thread. *)
(*                                                                         *)
(* JavaScript strings are TLA+ strings; TLC evaluates Len, \o and SubSeq   *)
(* on them.  A value that may be undefined (an unset environment variable, *)
(* a missing argument) is the empty tuple << >>, a present string s is     *)
(* <<s>>.                                                                  *)
(***************************************************************************)
EXTENDS Integers, Sequences, FiniteSets, TLC

VARIABLES
    \* --- buildCommentMarker applied to two (environment, directory) pairs
    mEnvA, mDirA, mEnvB, mDirB, mRef, mOut,
    \* --- the truncators applied to one content under one limit
    tContent, tLimit, tLines, tChars, tPlan,
    \* --- the two filters applied to one transcript
    fContent, fInit, fValidate,
    \* --- extractResourceChanges applied to one plan transcript
    xPlan, xOut,
    \* --- buildResourceSummary applied to one record of lists
    sChanges, sOut,
    \* --- one run of the script: the assembled comment, then its listing
    \* --- and its write, on a thread that a run of an earlier publisher
    \* --- writes to as well
    rIn, rOut, rPost, rThread, eRun,
    \* --- the thread and the runs of the publish step
    thread,     \* the comments of the thread, oldest first
    thread0,    \* the thread before the first run
    run,        \* the state of each run
    overlap,    \* a run started while another one was listing or matching
    clock,      \* the number of write calls served so far
    claimed     \* the comments matched through the legacy heading

markerVars == <<mEnvA, mDirA, mEnvB, mDirB, mRef, mOut>>

truncVars == <<tContent, tLimit, tLines, tChars, tPlan>>

filterVars == <<fContent, fInit, fValidate>>

extractVars == <<xPlan, xOut>>

summaryVars == <<sChanges, sOut>>

helperVars == <<filterVars, extractVars, summaryVars>>

reportVars == <<rIn, rOut, rPost, rThread, eRun>>

publishVars == <<thread, thread0, run, overlap, clock, claimed>>

vars == <<markerVars, truncVars, helperVars, reportVars, publishVars>>

-----------------------------------------------------------------------------
(* JavaScript values and string primitives                                 *)

undefined == << >>

Some(s) == <<s>>

\* `${v}` : the text a template literal inserts for v
TemplateStr(v) == IF v = undefined THEN "undefined" ELSE v[1]

\* v || '' for a string-or-undefined v
OrEmpty(v) == IF v = undefined THEN "" ELSE v[1]

Min(S) == CHOOSE x \in S : \A y \in S : x <= y

Max(S) == CHOOSE x \in S : \A y \in S : x >= y

\* s.charAt(i), i counted from 0
CharAt(s, i) == SubSeq(s, i + 1, i + 1)

\* s.substring(from) and s.substring(from, to), indices counted from 0
SubstringFrom(s, from) == SubSeq(s, from + 1, Len(s))

Substring(s, from, to) == SubSeq(s, from + 1, to)

\* the positions (from 0) at which t occurs in s, not before position from
\* (the first character is compared before the whole of t)
Occurrences(s, t, from) ==
    { i \in from..(Len(s) - Len(t)) :
        /\ (t = "" \/ SubSeq(s, i + 1, i + 1) = SubSeq(t, 1, 1))
        /\ SubSeq(s, i + 1, i + Len(t)) = t }

\* s.indexOf(t, from): first occurrence at or after from, -1 when there is none
IndexOfFrom(s, t, from) ==
    IF Occurrences(s, t, from) = {} THEN -1 ELSE Min(Occurrences(s, t, from))

\* s.indexOf(t)
IndexOf(s, t) == IndexOfFrom(s, t, 0)

\* s.includes(t)
Includes(s, t) == Occurrences(s, t, 0) # {}

\* s.split(sep) for a one-character separator: the pieces between the
\* separators, one more than there are separators.  With seps the positions
\* of the separators, the pieces of s[lo..hi] are computed by halves (a piece
\* that spans the middle is glued); a stretch without separator is one piece.
RECURSIVE SplitRange(_, _, _, _)
SplitRange(s, seps, lo, hi) ==
    IF lo > hi THEN <<"">>
    ELSE IF seps \cap (lo..hi) = {} THEN <<SubSeq(s, lo, hi)>>
    ELSE IF lo = hi THEN <<"", "">>
    ELSE LET mid == (lo + hi) \div 2
             l == SplitRange(s, seps, lo, mid)
             r == SplitRange(s, seps, mid + 1, hi)
         IN  SubSeq(l, 1, Len(l) - 1)
             \o <<l[Len(l)] \o r[1]>>
             \o SubSeq(r, 2, Len(r))

Split(s, sep) ==
    SplitRange(s, { i \in 1..Len(s) : SubSeq(s, i, i) = sep }, 1, Len(s))

\* parts.join(sep), computed by halves
RECURSIVE JoinRange(_, _, _, _)
JoinRange(parts, sep, lo, hi) ==
    IF lo > hi THEN ""
    ELSE IF lo = hi THEN parts[lo]
    ELSE LET mid == (lo + hi) \div 2
         IN  JoinRange(parts, sep, lo, mid) \o sep
             \o JoinRange(parts, sep, mid + 1, hi)

Join(parts, sep) == JoinRange(parts, sep, 1, Len(parts))

\* s.repeat(n)
RECURSIVE Repeat(_, _)
Repeat(s, n) ==
    IF n <= 0 THEN ""
    ELSE IF n % 2 = 0 THEN Repeat(s \o s, n \div 2)
    ELSE s \o Repeat(s, n - 1)

\* parts.slice(start): a negative start counts from the end (and -0 is 0, the
\* whole array); the start is clamped to 0..length
SliceFrom(parts, start) ==
    LET n == Len(parts)
        from == IF start < 0
                THEN (IF n + start < 0 THEN 0 ELSE n + start)
                ELSE (IF start > n THEN n ELSE start)
    IN  SubSeq(parts, from + 1, n)

\* the characters String.prototype.trim removes and the pattern \s matches:
\* space, tab, line feed, carriage return, form feed, vertical tab, U+00A0,
\* U+1680 and U+FEFF (the spaces U+2000 to U+200A, U+2028, U+2029, U+202F,
\* U+205F and U+3000 cannot be written in a string of this module, so that no
\* text of the model holds them)
Whitespace == {" ", "\t", "\n", "\r", "\f", "", " ", " ", "﻿"}

\* s.trim(): the text between the first and the last character that is not
\* whitespace (lead and back are the numbers of characters removed)
Trim(s) ==
    IF \A i \in 1..Len(s) : SubSeq(s, i, i) \in Whitespace THEN ""
    ELSE LET lead == CHOOSE d \in 0..(Len(s) - 1) :
                        /\ SubSeq(s, d + 1, d + 1) \notin Whitespace
                        /\ \A e \in 1..d : SubSeq(s, e, e) \in Whitespace
             back == CHOOSE d \in 0..(Len(s) - 1) :
                        /\ SubSeq(s, Len(s) - d, Len(s) - d) \notin Whitespace
                        /\ \A e \in 0..(d - 1) :
                               SubSeq(s, Len(s) - e, Len(s) - e) \in Whitespace
         IN  SubSeq(s, lead + 1, Len(s) - back)

\* !content || content.trim() === '' for a string-or-undefined content
IsBlank(content) == content = undefined \/ Trim(content[1]) = ""

-----------------------------------------------------------------------------
(* buildCommentMarker                                                      *)

MarkerOpen == "<!-- tf-action:"

MarkerClose == " -->"

\* the workflow file path of GITHUB_WORKFLOW_REF: the text before the first
\* '@', without its first two path segments when it has more than two
WorkflowPath(workflowRef) ==
    LET raw == OrEmpty(workflowRef)
        atIdx == IndexOf(raw, "@")
        cut == IF atIdx >= 0 THEN Substring(raw, 0, atIdx) ELSE raw
        parts == Split(cut, "/")
    IN  IF Len(parts) > 2 THEN Join(SliceFrom(parts, 2), "/") ELSE cut

buildCommentMarker(env, workDir, workflowRef) ==
    MarkerOpen \o "workflow=" \o WorkflowPath(workflowRef)
        \o ":env=" \o TemplateStr(env)
        \o ":dir=" \o TemplateStr(workDir) \o MarkerClose

-----------------------------------------------------------------------------
(* Inputs of the marker specification: strings made of at most MaxFrags     *)
(* fragments, the fragments being plain names and the delimiters the       *)
(* marker itself is written with.                                          *)

MaxFrags == 2

EnvFrags == {"prod", ":dir="}

DirFrags == {"a", ":dir=", " -->"}

RECURSIVE Concats(_, _)
Concats(frags, n) ==
    IF n = 0 THEN {""}
    ELSE Concats(frags, n - 1)
         \cup { s \o f : s \in Concats(frags, n - 1), f \in frags }

EnvInputs == Concats(EnvFrags, MaxFrags) \ {""}

DirInputs == Concats(DirFrags, MaxFrags) \ {""}

RefInputs ==
    { undefined,
      Some(""),
      Some("o/r/.github/workflows/tf.yml@refs/heads/main"),
      Some("o/r/.github/workflows/tf.yml"),
      Some("tf.yml@main") }

\* the variables of the marker specification while another one runs
MarkerIdle ==
    /\ mEnvA = "" /\ mDirA = "" /\ mEnvB = "" /\ mDirB = ""
    /\ mRef = undefined /\ mOut = << >>

MarkerInit ==
    /\ mEnvA \in EnvInputs
    /\ mDirA \in DirInputs
    /\ mEnvB \in EnvInputs
    /\ mDirB \in DirInputs
    /\ mRef \in RefInputs
    /\ mOut = << >>

\* both markers are built, as two runs of the script would build them
BuildMarkers ==
    /\ mOut = << >>
    /\ mOut' = << buildCommentMarker(Some(mEnvA), Some(mDirA), mRef),
                  buildCommentMarker(Some(mEnvB), Some(mDirB), mRef) >>
    /\ UNCHANGED <<mEnvA, mDirA, mEnvB, mDirB, mRef>>

-----------------------------------------------------------------------------
(* truncateOutput and processPlanOutput                                    *)

NoOutput == [text |-> "No output available", truncated |-> FALSE]

\* the banner line of a truncated text and the blank line after it
Banner(n) == "... (" \o ToString(n) \o " lines truncated) ...\n\n"

\* truncateOutput(content, maxLines): the trailing maxLines lines
truncateOutput(content, maxLines) ==
    IF IsBlank(content) THEN NoOutput
    ELSE LET lines == Split(content[1], "\n")
         IN  IF Len(lines) > maxLines
             THEN [text |-> Banner(Len(lines) - maxLines)
                            \o Join(SliceFrom(lines, 0 - maxLines), "\n"),
                   truncated |-> TRUE]
             ELSE [text |-> content[1], truncated |-> FALSE]

\* the default of truncateOutput's second parameter
DefaultMaxLines == 50

indicators ==
    << "Note: Objects have changed outside of Terraform",
       "Terraform will perform the following actions:",
       "No changes. Your infrastructure matches the configuration.",
       "Planning failed. Terraform encountered an error while generating this plan.",
       "Plan:",
       "Changes to Outputs:",
       "Error:" >>

\* l => indicators.some((ind) => l.includes(ind))
HasIndicator(l) == \E k \in 1..Len(indicators) : Includes(l, indicators[k])

\* lines.findIndex(pred) for the indicator predicate, counted from 0
FindIndicator_PlanOnly(lines) ==
    LET hits == { k \in 1..Len(lines) : Includes(lines[k], "Plan:") }
    IN  IF hits = {} THEN -1 ELSE Min(hits) - 1

FindIndicator(lines) ==
    LET hits == { k \in 1..Len(lines) : HasIndicator(lines[k]) }
    IN  IF hits = {} THEN -1 ELSE Min(hits) - 1

\* the lines from the first indicator line on, all lines when there is none
Relevant(content) ==
    LET lines == Split(content, "\n")
        idx == FindIndicator(lines)
    IN  IF idx >= 0 THEN SliceFrom(lines, idx) ELSE lines

\* !content || content.trim() === '' || content === 'null'
IsNoPlan(content) == IsBlank(content) \/ content = Some("null")

\* processPlanOutput with the line bound (500 in the script)
processPlanOutput(content, maxLines) ==
    IF IsNoPlan(content) THEN NoOutput
    ELSE LET relevant == Relevant(content[1])
         IN  IF Len(relevant) > maxLines
             THEN [text |-> Banner(Len(relevant) - maxLines)
                            \o Join(SliceFrom(relevant, 0 - maxLines), "\n"),
                   truncated |-> TRUE]
             ELSE [text |-> Join(relevant, "\n"), truncated |-> FALSE]

PlanMaxLines == 500

\* processPlanOutput with the character bound (MAX_PLAN_CHARS in the script):
\* the cut is moved forward to just after the next newline, if there is one
processPlanOutputChars(content, maxChars) ==
    IF IsNoPlan(content) THEN NoOutput
    ELSE LET fullText == Join(Relevant(content[1]), "\n")
             cut0 == Len(fullText) - maxChars
             nextNewline == IndexOfFrom(fullText, "\n", cut0)
             cutIdx == IF nextNewline >= 0 THEN nextNewline + 1 ELSE cut0
             kept == SubstringFrom(fullText, cutIdx)
             droppedLines == Len(Split(Substring(fullText, 0, cutIdx), "\n"))
         IN  IF Len(fullText) > maxChars
             THEN [text |-> Banner(droppedLines) \o kept, truncated |-> TRUE]
             ELSE [text |-> fullText, truncated |-> FALSE]

MAX_PLAN_CHARS == 50000

-----------------------------------------------------------------------------
(* filterInitOutput and filterValidateOutput                               *)

\* the character of s at position i (from 1), "" outside the string
At(s, i) == IF i >= 1 /\ i <= Len(s) THEN SubSeq(s, i, i) ELSE ""

\* t occurs in s at position i (from 1)
StartsWithAt(s, t, i) ==
    i >= 1 /\ i + Len(t) - 1 <= Len(s) /\ SubSeq(s, i, i + Len(t) - 1) = t

separator == "--- First attempt failed, trying with -upgrade ---"

filterInitOutput_WholeText(content) ==
    IF IsBlank(content) THEN content
    ELSE LET lines == Split(content[1], "\n")
             hits == { k \in 1..Len(lines) : Includes(lines[k], "Error:") }
         IN  IF hits = {} THEN content
             ELSE Some(Trim(Join(SliceFrom(lines, Min(hits) - 1), "\n")))

filterInitOutput_ReturnsRelevant(content) ==
    IF IsBlank(content) THEN content
    ELSE LET sepIdx == IndexOf(content[1], separator)
             relevant == IF sepIdx >= 0
                         THEN SubstringFrom(content[1], sepIdx + Len(separator))
                         ELSE content[1]
             lines == Split(relevant, "\n")
             hits == { k \in 1..Len(lines) : Includes(lines[k], "Error:") }
         IN  IF hits = {} THEN Some(relevant)
             ELSE Some(Trim(Join(SliceFrom(lines, Min(hits) - 1), "\n")))

\* filterInitOutput: from the first 'Error:' line of the text after the first
\* retry separator (of the whole text without one), else the input unchanged
filterInitOutput(content) ==
    IF IsBlank(content) THEN content
    ELSE LET sepIdx == IndexOf(content[1], separator)
             relevant == IF sepIdx >= 0
                         THEN SubstringFrom(content[1], sepIdx + Len(separator))
                         ELSE content[1]
             lines == Split(relevant, "\n")
             hits == { k \in 1..Len(lines) : Includes(lines[k], "Error:") }
         IN  IF hits = {} THEN content
             ELSE Some(Trim(Join(SliceFrom(lines, Min(hits) - 1), "\n")))

Digits == {"0", "1", "2", "3", "4", "5", "6", "7", "8", "9"}

AllDigits(s, from, to) == \A i \in from..to : At(s, i) \in Digits

AllSpace(s, from, to) == \A i \in from..to : At(s, i) \in Whitespace

LogLevels == {"INFO", "DEBUG", "TRACE", "WARN", "ERROR"}

\* /^\d{4}-\d{2}-\d{2}T\d{2}:\d{2}:\d{2}\.\d+Z\s+\[(INFO|DEBUG|TRACE|WARN|ERROR)\]/
IsLogLine(line) ==
    /\ AllDigits(line, 1, 4) /\ At(line, 5) = "-"
    /\ AllDigits(line, 6, 7) /\ At(line, 8) = "-"
    /\ AllDigits(line, 9, 10) /\ At(line, 11) = "T"
    /\ AllDigits(line, 12, 13) /\ At(line, 14) = ":"
    /\ AllDigits(line, 15, 16) /\ At(line, 17) = ":"
    /\ AllDigits(line, 18, 19) /\ At(line, 20) = "."
    /\ \E z \in 22..Len(line) :
          /\ AllDigits(line, 21, z - 1)
          /\ At(line, z) = "Z"
          /\ \E b \in (z + 2)..Len(line) :
                /\ AllSpace(line, z + 1, b - 1)
                /\ At(line, b) = "["
                /\ \E lv \in LogLevels : StartsWithAt(line, lv \o "]", b + 1)

DiagnosticKeys ==
    { "diagnostic_detail", "diagnostic_severity", "diagnostic_summary",
      "diagnostic_attribute", "tf_provider_addr", "tf_resource_type",
      "tf_proto_version", "tf_rpc", "tf_req_id", "@caller", "@module" }

\* /(?:diagnostic_detail|...|@module)=/
IsDiagnosticLine(line) == \E k \in DiagnosticKeys : Includes(line, k \o "=")

\* /^\s+\|/
IsPipeLine(line) ==
    \E b \in 2..Len(line) : AllSpace(line, 1, b - 1) /\ At(line, b) = "|"

\* the predicate of lines.filter: the line is kept
KeepValidateLine(line) ==
    ~IsLogLine(line) /\ ~IsDiagnosticLine(line) /\ ~IsPipeLine(line)

\* lines.filter(pred) for the predicate above, computed by halves
RECURSIVE FilterRange(_, _, _)
FilterRange(lines, lo, hi) ==
    IF lo > hi THEN << >>
    ELSE IF lo = hi
    THEN (IF KeepValidateLine(lines[lo]) THEN <<lines[lo]>> ELSE << >>)
    ELSE LET mid == (lo + hi) \div 2
         IN  FilterRange(lines, lo, mid) \o FilterRange(lines, mid + 1, hi)

\* filtered.reduce(...): a blank line is not pushed onto an accumulator that
\* ends with a blank line
RECURSIVE Collapse(_, _, _)
Collapse(filtered, k, acc) ==
    IF k > Len(filtered) THEN acc
    ELSE IF /\ Trim(filtered[k]) = ""
            /\ Len(acc) > 0
            /\ Trim(acc[Len(acc)]) = ""
    THEN Collapse(filtered, k + 1, acc)
    ELSE Collapse(filtered, k + 1, Append(acc, filtered[k]))

filterValidateOutput(content) ==
    IF IsBlank(content) THEN content
    ELSE LET lines == Split(content[1], "\n")
             filtered == FilterRange(lines, 1, Len(lines))
         IN  Some(Trim(Join(Collapse(filtered, 1, << >>), "\n")))

-----------------------------------------------------------------------------
(* extractResourceChanges and buildResourceSummary                         *)

MAX_RESOURCE_LINES == 20

NoChanges == [created |-> << >>, updated |-> << >>, deleted |-> << >>, replaced |-> << >>]

\* the characters '.' does not match
LineTerminators == {"\n", "\r"}

\* every character of s[from..to] is matched by '.', and there is one
AllDot(s, from, to) ==
    from <= to /\ \A i \in from..to : At(s, i) \notin LineTerminators

\* the first position at or after i that holds no whitespace (Len + 1 if none)
FirstNonSpace(s, i) ==
    Min({ j \in i..Len(s) : At(s, j) \notin Whitespace } \cup {Len(s) + 1})

\* line.match(/^\s+#\s+(.+)\s+(will be|must be)\s+(.+)$/): << >> when the line
\* does not match, else <<m[1].trim(), m[3].trim()>>.  The greedy groups make
\* m[1] end as far right as a match allows.
MatchChange(line) ==
    LET h == FirstNonSpace(line, 1)
        f == FirstNonSpace(line, h + 1)
        \* a match with m[1] = line[s1..e1]
        Fits(s1, e1) ==
            LET v == FirstNonSpace(line, e1 + 1)
            IN  /\ AllDot(line, s1, e1)
                /\ v > e1 + 1
                /\ (StartsWithAt(line, "will be", v) \/ StartsWithAt(line, "must be", v))
                /\ At(line, v + 7) \in Whitespace
                /\ \E a \in (v + 8)..Len(line) :
                      AllSpace(line, v + 7, a - 1) /\ AllDot(line, a, Len(line))
        starts == { s1 \in (h + 2)..f : \E e1 \in s1..Len(line) : Fits(s1, e1) }
        s1 == Max(starts)
        e1 == Max({ e \in s1..Len(line) : Fits(s1, e) })
        v == FirstNonSpace(line, e1 + 1)
    IN  IF h < 2 \/ At(line, h) # "#" \/ f = h + 1 \/ starts = {}
        THEN << >>
        ELSE << Trim(SubSeq(line, s1, e1)), Trim(SubSeq(line, v + 7, Len(line))) >>

AddChange_AllCreated(result, line) ==
    LET m == MatchChange(line)
    IN  IF m = << >> THEN result
        ELSE [result EXCEPT !.created = Append(@, m[1])]

\* the lists after one line
AddChange(result, line) ==
    LET m == MatchChange(line)
    IN  IF m = << >> THEN result
        ELSE IF m[2] = "created"
        THEN [result EXCEPT !.created = Append(@, m[1])]
        ELSE IF m[2] = "updated in-place"
        THEN [result EXCEPT !.updated = Append(@, m[1])]
        ELSE IF m[2] = "destroyed"
        THEN [result EXCEPT !.deleted = Append(@, m[1])]
        ELSE IF Includes(m[2], "replaced")
        THEN [result EXCEPT !.replaced = Append(@, m[1])]
        ELSE result

\* the loop over the lines lo..hi, by halves (each list is the list of the
\* first half followed by that of the second)
RECURSIVE ChangesOfRange(_, _, _)
ChangesOfRange(lines, lo, hi) ==
    IF lo > hi THEN NoChanges
    ELSE IF lo = hi THEN AddChange(NoChanges, lines[lo])
    ELSE LET mid == (lo + hi) \div 2
             l == ChangesOfRange(lines, lo, mid)
             r == ChangesOfRange(lines, mid + 1, hi)
         IN  [created |-> l.created \o r.created,
              updated |-> l.updated \o r.updated,
              deleted |-> l.deleted \o r.deleted,
              replaced |-> l.replaced \o r.replaced]

extractResourceChanges(content) ==
    IF IsBlank(content) THEN NoChanges
    ELSE LET lines == Split(content[1], "\n")
         IN  ChangesOfRange(lines, 1, Len(lines))

\* the labels of the four categories, in the order they are rendered.  In
\* the texts of the comment an emoji is written as its GitHub short code and
\* the markdown backquote as an apostrophe (a TLA+ string holds neither).
categories ==
    << [key |-> "created", label |-> ":green_circle: Will be Created"],
       [key |-> "updated", label |-> ":arrows_counterclockwise: Will be Updated"],
       [key |-> "deleted", label |-> ":red_circle: Will be Deleted"],
       [key |-> "replaced", label |-> ":warning: Will be Replaced"] >>

CategoryLines_NoCap(items) == [k \in 1..Len(items) |-> "- '" \o items[k] \o "'"]

\* the bullets of one category: at most MAX_RESOURCE_LINES addresses and one
\* overflow bullet
CategoryLines(items) ==
    LET shown == SubSeq(items, 1, IF Len(items) > MAX_RESOURCE_LINES
                                  THEN MAX_RESOURCE_LINES ELSE Len(items))
        bullets == [k \in 1..Len(shown) |-> "- '" \o shown[k] \o "'"]
    IN  IF Len(items) > MAX_RESOURCE_LINES
        THEN Append(bullets, "- *... and "
                             \o ToString(Len(items) - MAX_RESOURCE_LINES)
                             \o " more*")
        ELSE bullets

\* the sections of the categories k..4 that have entries
RECURSIVE Sections(_, _)
Sections(changes, k) ==
    IF k > Len(categories) THEN << >>
    ELSE LET items == changes[categories[k].key]
         IN  (IF Len(items) = 0 THEN << >>
              ELSE << "### " \o categories[k].label \o "\n"
                      \o Join(CategoryLines(items), "\n") >>)
             \o Sections(changes, k + 1)

buildResourceSummary(changes) ==
    IF Len(Sections(changes, 1)) = 0 THEN ""
    ELSE "\n" \o Join(Sections(changes, 1), "\n\n") \o "\n##\n"

-----------------------------------------------------------------------------
(* The comment of one run: module.exports up to the assembled text.  The   *)
(* input e of a run is a record of its environment variables (each a       *)
(* string or undefined) and of its three transcript files (undefined when  *)
(* the file is missing or unreadable).                                     *)

\* readFileSafe: the text of the file, '' when reading it throws
readFileSafe_ErrorText(file) ==
    IF file = undefined THEN Some("ENOENT: no such file or directory") ELSE file

readFileSafe(file) == IF file = undefined THEN Some("") ELSE file

\* process.env.X === 'value'
EnvIs(e, name, value) == e[name] = Some(value)

\* x || fallback for a string-or-undefined x
OrElse(v, fallback) == IF v = undefined \/ v = Some("") THEN fallback ELSE v[1]

environment(e) == e.ENVIRONMENT

workingDirectory(e) == Some(OrElse(e.WORKING_DIRECTORY, "."))

marker(e) ==
    buildCommentMarker(environment(e), workingDirectory(e), e.GITHUB_WORKFLOW_REF)

InitMaxLines == 50

ValidateMaxLines == 50

\* the values the script computes once from its files: the three bounded
\* texts, the raw plan and the resource summary
Results(e) ==
    [ e |-> e,
      initResult |->
          truncateOutput(filterInitOutput(readFileSafe(e.initFile)), InitMaxLines),
      validateResult |->
          truncateOutput(filterValidateOutput(readFileSafe(e.validateFile)),
                         ValidateMaxLines),
      planResult |-> processPlanOutput(readFileSafe(e.planFile), PlanMaxLines),
      resourceSummary |->
          buildResourceSummary(extractResourceChanges(readFileSafe(e.planFile))) ]

isCleanValidation_Never(c) == FALSE

isCleanValidation(c) ==
    Trim(c.validateResult.text) = "Success! The configuration is valid."

\* only the outputs that are displayed are meant to be tracked
hasTruncation(c) ==
    IF EnvIs(c.e, "INIT_OUTCOME", "failure")
    THEN c.initResult.truncated
    ELSE \/ (~isCleanValidation(c) /\ c.validateResult.truncated)
         \/ (~EnvIs(c.e, "VALIDATE_OUTCOME", "failure") /\ c.planResult.truncated)

\* the end of the run of digits that starts at position i (i - 1 if none)
DigitsEnd(s, i) ==
    Max({ j \in i..Len(s) : AllDigits(s, i, j) } \cup {i - 1})

\* planSummary.match(/(\d+ to add, \d+ to change, \d+ to destroy)/): << >>
\* without a match, else <<m[1]>> for the leftmost match
MatchSummary(s) ==
    LET EndFrom(i) ==
            LET a == DigitsEnd(s, i)
                b == DigitsEnd(s, a + 10)
                c == DigitsEnd(s, b + 13)
            IN  IF /\ a >= i /\ StartsWithAt(s, " to add, ", a + 1)
                   /\ b >= a + 10 /\ StartsWithAt(s, " to change, ", b + 1)
                   /\ c >= b + 13 /\ StartsWithAt(s, " to destroy", c + 1)
                THEN c + 11 ELSE 0
        starts == { i \in 1..Len(s) : EndFrom(i) > 0 }
    IN  IF starts = {} THEN << >>
        ELSE <<SubSeq(s, Min(starts), EndFrom(Min(starts)))>>

planSummary(e) == OrElse(e.PLAN_SUMMARY, "")

headerTitle(e) ==
    "Terraform " \o TemplateStr(environment(e))
    \o (IF Includes(planSummary(e), "to add")
        THEN (IF MatchSummary(planSummary(e)) # << >>
              THEN " (" \o MatchSummary(planSummary(e))[1] \o ")" ELSE "")
        ELSE IF Includes(planSummary(e), "No changes") THEN " (no changes)"
        ELSE "")

fmtStatus(e) ==
    IF EnvIs(e, "FMT_OUTCOME", "failure")
    THEN ":warning: Need Formatting" ELSE ":white_check_mark: Valid"

initStatus_ByValidate(e) ==
    IF EnvIs(e, "INIT_OUTCOME", "failure") \/ EnvIs(e, "VALIDATE_OUTCOME", "failure")
    THEN ":x: Failed" ELSE ":white_check_mark: Passed"

initStatus(e) ==
    IF EnvIs(e, "INIT_OUTCOME", "failure")
    THEN ":x: Failed" ELSE ":white_check_mark: Passed"

validateStatus(c) ==
    IF EnvIs(c.e, "INIT_OUTCOME", "failure") THEN ":fast_forward: Skipped"
    ELSE IF EnvIs(c.e, "VALIDATE_OUTCOME", "failure") THEN ":x: Failed"
    ELSE IF isCleanValidation(c) THEN ":white_check_mark: Passed"
    ELSE ":warning: Warnings"

planStatus(e) ==
    IF EnvIs(e, "INIT_OUTCOME", "failure") \/ EnvIs(e, "VALIDATE_OUTCOME", "failure")
    THEN ":fast_forward: Skipped"
    ELSE IF EnvIs(e, "PLAN_OUTCOME", "failure") THEN ":x: Failed"
    ELSE IF ~EnvIs(e, "PLAN_OUTCOME", "success") THEN ":fast_forward: Skipped"
    ELSE ":white_check_mark: Passed"

lockStatus(e) ==
    IF EnvIs(e, "LOCK_CHANGED", "true")
    THEN ":warning: Changed" ELSE ":white_check_mark: Up to date"

tfVersion(e) == OrElse(e.TERRAFORM_VERSION, "")

statusTable(c) ==
    IF tfVersion(c.e) # ""
    THEN "\n| Format | Init | Validate | Plan | Lock File | Version |\n"
         \o "|:-:|:-:|:-:|:-:|:-:|:-:|\n"
         \o "| " \o fmtStatus(c.e) \o " | " \o initStatus(c.e) \o " | "
         \o validateStatus(c) \o " | " \o planStatus(c.e) \o " | "
         \o lockStatus(c.e) \o " | " \o tfVersion(c.e) \o " |"
    ELSE "\n| Format | Init | Validate | Plan | Lock File |\n"
         \o "|:-:|:-:|:-:|:-:|:-:|\n"
         \o "| " \o fmtStatus(c.e) \o " | " \o initStatus(c.e) \o " | "
         \o validateStatus(c) \o " | " \o planStatus(c.e) \o " | "
         \o lockStatus(c.e) \o " |"

\* a collapsible section: <details> with a summary and a fenced text
Details(summary, fence, text) ==
    "<details><summary>" \o summary \o "</summary>\n\n'''" \o fence \o "\n"
    \o text \o "\n'''\n\n</details>"

initSection(c) ==
    IF EnvIs(c.e, "INIT_OUTCOME", "failure")
    THEN "\n" \o Details(":x: Init Failed - Show Details", "", c.initResult.text)
         \o "\n"
    ELSE ""

validateDetails(c) ==
    IF /\ ~EnvIs(c.e, "INIT_OUTCOME", "failure")
       /\ ~EnvIs(c.e, "VALIDATE_OUTCOME", "failure")
       /\ ~isCleanValidation(c)
    THEN Details("Validation Output", "", c.validateResult.text)
    ELSE ""

planBody(c) ==
    IF EnvIs(c.e, "INIT_OUTCOME", "failure")
    THEN "> :x: **Terraform init failed!** Fix the errors above before merging."
         \o initSection(c)
    ELSE IF EnvIs(c.e, "VALIDATE_OUTCOME", "failure")
    THEN Details("Validation Failed - Show Details", "", c.validateResult.text)
         \o "\n\n> :x: **Terraform validation failed!** Fix the errors above before merging."
    ELSE IF EnvIs(c.e, "PLAN_OUTCOME", "success")
    THEN Details("Show Full Plan", "terraform", c.planResult.text)
    ELSE IF EnvIs(c.e, "PLAN_OUTCOME", "failure")
    THEN Details("Plan Failed - Show Details", "", c.planResult.text)
         \o "\n\n> :x: **Terraform plan failed!** Fix the errors above before merging."
    ELSE "> Plan was skipped."

TruncationNoticeLead == "\n**:warning: Output truncated due to length."

truncationNotice(c) ==
    IF hasTruncation(c)
    THEN TruncationNoticeLead \o " [View full logs]("
         \o TemplateStr(c.e.GITHUB_SERVER_URL) \o "/" \o TemplateStr(c.e.GITHUB_REPOSITORY)
         \o "/actions/runs/" \o TemplateStr(c.e.GITHUB_RUN_ID) \o ").**"
    ELSE ""

\* parts.filter(Boolean): the parts that are not the empty string
RECURSIVE FilterBoolean(_)
FilterBoolean(parts) ==
    IF parts = << >> THEN << >>
    ELSE (IF Head(parts) = "" THEN << >> ELSE <<Head(parts)>>)
         \o FilterBoolean(Tail(parts))

\* the assembled comment of a run with the values c
commentOf(c) ==
    Join(FilterBoolean(<< marker(c.e),
                          "## " \o headerTitle(c.e),
                          c.resourceSummary,
                          "### Details",
                          validateDetails(c),
                          planBody(c),
                          statusTable(c),
                          truncationNotice(c) >>), "\n")

\* (the values are computed once, then the text is assembled from them)
comment(e) == CHOOSE text \in { commentOf(c) : c \in {Results(e)} } : TRUE

-----------------------------------------------------------------------------
(* Inputs of the truncation specification: contents of at most MaxPieces   *)
(* pieces (letters, blanks, newlines, two indicator phrases), no content,  *)
(* and contents beyond the bounds of processPlanOutput (more than 500      *)
(* lines, more than 50000 characters); limits of truncateOutput up to      *)
(* MaxLimit.                                                               *)

MaxPieces == 4

MaxLimit == 3

\* by how much a long content exceeds a bound
Excess == 7

ContentPieces == {"x", " ", "\n", "Plan:", "Error:"}

\* half of the character bound, and a little more
HalfPlus == MAX_PLAN_CHARS \div 2 + Excess

\* contents beyond the bounds: one line longer than the character bound, two
\* lines after the indicator line that are together longer than it, and more
\* lines than the line bound
LongContents ==
    { Some("Plan:" \o Repeat("x", MAX_PLAN_CHARS)),
      Some("Plan:\n" \o Repeat("x", HalfPlus) \o "\n" \o Repeat("x", HalfPlus)),
      Some("x\nPlan:\n" \o Repeat("-\n", PlanMaxLines + Excess) \o "end") }

ContentInputs ==
    {undefined, Some("null")}
    \cup { Some(s) : s \in Concats(ContentPieces, MaxPieces) }
    \cup LongContents

TruncIdle ==
    /\ tContent = undefined /\ tLimit = 0 /\ tLines = << >> /\ tChars = << >>
    /\ tPlan = << >>

TruncInit ==
    /\ tContent \in ContentInputs
    /\ tLimit \in 0..MaxLimit
    /\ tLines = << >>
    /\ tChars = << >>
    /\ tPlan = << >>

\* truncateOutput(content, limit) is called
ApplyTruncate ==
    /\ tLines = << >>
    /\ tLines' = <<truncateOutput(tContent, tLimit)>>
    /\ UNCHANGED <<tContent, tLimit, tChars, tPlan>>

\* the character-bounded processPlanOutput is called
ApplyPlanChars ==
    /\ tChars = << >>
    /\ tChars' = <<processPlanOutputChars(tContent, MAX_PLAN_CHARS)>>
    /\ UNCHANGED <<tContent, tLimit, tLines, tPlan>>

\* the line-bounded processPlanOutput is called
ApplyPlan ==
    /\ tPlan = << >>
    /\ tPlan' = <<processPlanOutput(tContent, PlanMaxLines)>>
    /\ UNCHANGED <<tContent, tLimit, tLines, tChars>>

-----------------------------------------------------------------------------
(* Inputs of the filter specification: transcripts of at most              *)
(* MaxInitPieces pieces of an init run (an error token, the retry          *)
(* separator, text, newlines) and of at most MaxValidatePieces pieces of a *)
(* validate run (message heads, a context line, a diagnostic key, a        *)
(* provider log prefix, a pipe, blanks, newlines), or no transcript.       *)

MaxInitPieces == 5

MaxValidatePieces == 4

InitPieces == {"Error:", separator, "\n", "x", " "}

ValidatePieces ==
    { "Warning:", "Error:", "  on main.tf line 1", " tf_rpc=1",
      "2024-01-01T00:00:00.0Z [INFO]", "|", " ", "\n", "x" }

FilterInputs ==
    {undefined}
    \cup { Some(s) : s \in Concats(InitPieces, MaxInitPieces) }
    \cup { Some(s) : s \in Concats(ValidatePieces, MaxValidatePieces) }

FilterIdle == fContent = undefined /\ fInit = << >> /\ fValidate = << >>

FilterInit == fContent \in FilterInputs /\ fInit = << >> /\ fValidate = << >>

\* filterInitOutput(content) is called
ApplyFilterInit ==
    /\ fInit = << >>
    /\ fInit' = <<filterInitOutput(fContent)>>
    /\ UNCHANGED <<fContent, fValidate>>

\* filterValidateOutput(content) is called, and called again on its result
ApplyFilterValidate ==
    /\ fValidate = << >>
    /\ \E once \in {filterValidateOutput(fContent)} :
          fValidate' = <<once, filterValidateOutput(once)>>
    /\ UNCHANGED <<fContent, fInit>>

-----------------------------------------------------------------------------
(* Inputs of the extraction specification: plan transcripts of at most     *)
(* MaxPlanLines lines, each a change line of one of two addresses, a       *)
(* change line without indentation, a line with another action phrase or  *)
(* a line that is no change line; or no transcript.                        *)

MaxPlanLines == 3

PlanLineInputs ==
    { "  # a will be created",
      "  # b will be created",
      "  # a will be destroyed",
      "  # b will be updated in-place",
      "  # b must be replaced",
      "# a will be created",
      "  # c will be read during apply",
      "  + resource" }

RECURSIVE LineSeqs(_, _)
LineSeqs(cands, n) ==
    IF n = 0 THEN { << >> }
    ELSE LineSeqs(cands, n - 1)
         \cup { Append(ls, l) : ls \in { x \in LineSeqs(cands, n - 1) : Len(x) = n - 1 },
                                l \in cands }

PlanInputs ==
    {undefined} \cup { Some(Join(ls, "\n")) : ls \in LineSeqs(PlanLineInputs, MaxPlanLines) }

ExtractIdle == xPlan = undefined /\ xOut = << >>

ExtractInit == xPlan \in PlanInputs /\ xOut = << >>

\* extractResourceChanges(rawPlanContent) is called
ApplyExtract ==
    /\ xOut = << >>
    /\ xOut' = <<extractResourceChanges(xPlan)>>
    /\ UNCHANGED xPlan

-----------------------------------------------------------------------------
(* Inputs of the summary specification: the four lists, each with no, one, *)
(* MAX_RESOURCE_LINES or up to Overflow more addresses.                    *)

Overflow == 2

ListSizes == {0, 1} \cup { MAX_RESOURCE_LINES + d : d \in 0..Overflow }

\* the addresses key.1 .. key.n
Addresses(key, n) == [k \in 1..n |-> key \o "." \o ToString(k)]

SummaryInputs ==
    { [created |-> Addresses("created", c), updated |-> Addresses("updated", u),
       deleted |-> Addresses("deleted", d), replaced |-> Addresses("replaced", r)] :
          c \in ListSizes, u \in ListSizes, d \in ListSizes, r \in ListSizes }

SummaryIdle == sChanges = NoChanges /\ sOut = << >>

SummaryInit == sChanges \in SummaryInputs /\ sOut = << >>

\* buildResourceSummary(resourceChanges) is called
ApplySummary ==
    /\ sOut = << >>
    /\ sOut' = <<buildResourceSummary(sChanges)>>
    /\ UNCHANGED sChanges

-----------------------------------------------------------------------------
(* Inputs of the report specification: the stage outcomes and the three    *)
(* transcripts of one run.  A long transcript has ExtraLines lines more    *)
(* than the bound of its stage.                                            *)

ExtraLines == 2

BaseEnv ==
    [ ENVIRONMENT |-> Some("prod"),
      WORKING_DIRECTORY |-> Some("a"),
      GITHUB_WORKFLOW_REF |-> Some("o/r/.github/workflows/tf.yml@refs/heads/main"),
      PLAN_SUMMARY |-> Some("Plan: 1 to add, 0 to change, 0 to destroy."),
      LOCK_CHANGED |-> Some("false"),
      FMT_OUTCOME |-> Some("success"),
      INIT_OUTCOME |-> Some("success"),
      VALIDATE_OUTCOME |-> Some("success"),
      PLAN_OUTCOME |-> Some("success"),
      TERRAFORM_VERSION |-> Some("1.9.0"),
      GITHUB_SERVER_URL |-> Some("https://github.com"),
      GITHUB_REPOSITORY |-> Some("o/r"),
      GITHUB_RUN_ID |-> Some("7"),
      initFile |-> undefined,
      validateFile |-> undefined,
      planFile |-> undefined ]

InitFiles ==
    { undefined,
      Some("Initializing the backend...\nError: bad block\n\n  on main.tf line 1:"),
      Some("Initializing the backend...\nTerraform has been successfully initialized!"),
      Some("Initializing\nError: bad block\n"
           \o Repeat("detail\n", InitMaxLines + ExtraLines)) }

ValidateFiles ==
    { undefined,
      Some("Success! The configuration is valid.\n"),
      Some("Warning: Deprecated attribute\n\n  on outputs.tf line 35\n\n"
           \o "Success! The configuration is valid, but there were some validation warnings"),
      Some("Error: Unsupported argument\n"
           \o Repeat("  detail\n", ValidateMaxLines + ExtraLines) \o "end") }

PlanFiles ==
    { undefined,
      Some("Refreshing state...\nTerraform will perform the following actions:\n\n"
           \o "  # aws_instance.web will be created\n  + resource\n\n"
           \o "Plan: 1 to add, 0 to change, 0 to destroy."),
      Some("Refreshing state...\nTerraform will perform the following actions:\n\n"
           \o "  # aws_instance.old will be destroyed\n"
           \o Repeat("-\n", PlanMaxLines + ExtraLines)
           \o "Plan: 0 to add, 0 to change, 1 to destroy.") }

Outcomes == {Some("success"), Some("failure"), Some("skipped")}

ReportInputs ==
    { [BaseEnv EXCEPT !.FMT_OUTCOME = o[1], !.INIT_OUTCOME = o[2],
                      !.VALIDATE_OUTCOME = o[3], !.PLAN_OUTCOME = o[4],
                      !.initFile = f[1], !.validateFile = f[2], !.planFile = f[3]] :
        o \in {Some("success"), Some("failure")} \X {Some("success"), Some("failure")}
              \X Outcomes \X (Outcomes \cup {undefined}),
        f \in InitFiles \X ValidateFiles \X PlanFiles }

\* the run has not begun to list; the run of an earlier publisher has not
\* started
PostIdle ==
    [ pc |-> "idle", page |-> 1, comments |-> << >>, how |-> "none",
      op |-> "none", target |-> 0, before |-> << >>, after |-> << >>,
      writes |-> 0 ]

EarlierIdle ==
    [ pc |-> "idle", version |-> "none", env |-> "none", page |-> 1,
      comments |-> << >>, op |-> "none", target |-> 0 ]

ReportIdle ==
    /\ rIn = << >> /\ rOut = << >> /\ rPost = PostIdle
    /\ rThread = << >> /\ eRun = EarlierIdle

ReportInit ==
    /\ rIn \in ReportInputs /\ rOut = << >> /\ rPost = PostIdle
    /\ rThread = << >> /\ eRun = EarlierIdle

\* one run of the script up to the assembled comment
Assemble ==
    /\ rOut = << >>
    /\ \E c \in {Results(rIn)} :
           rOut' = [ comment |-> commentOf(c),
                     initResult |-> c.initResult,
                     validateResult |-> c.validateResult,
                     planResult |-> c.planResult,
                     validateDetails |-> validateDetails(c),
                     planBody |-> planBody(c),
                     statusTable |-> statusTable(c) ]
    /\ UNCHANGED <<rIn, rPost, rThread, eRun>>

-----------------------------------------------------------------------------
(* The publish step: list the comments of the thread page by page, match,  *)
(* then create or update one comment.                                      *)

\* c => c.body && c.body.includes(marker)
HasMarker(c, m) == c.body # undefined /\ c.body # Some("") /\ Includes(c.body[1], m)

IsLegacy_HeadingOnly(c, env) ==
    /\ c.body # undefined /\ c.body # Some("")
    /\ Includes(c.body[1], "## Terraform " \o TemplateStr(env))

\* c => c.body && c.body.includes(`## Terraform ${environment}`)
\*        && !c.body.includes('<!-- tf-action:')
IsLegacy(c, env) ==
    /\ c.body # undefined /\ c.body # Some("")
    /\ Includes(c.body[1], "## Terraform " \o TemplateStr(env))
    /\ ~Includes(c.body[1], MarkerOpen)

\* comments.find(pred): the position of the first comment of the list that
\* satisfies pred, 0 when there is none
FindByMarker_Never(comments, m) == 0

FindByMarker(comments, m) ==
    Min({ k \in 1..Len(comments) : HasMarker(comments[k], m) } \cup {Len(comments) + 1})
        % (Len(comments) + 1)

FindLegacy(comments, env) ==
    Min({ k \in 1..Len(comments) : IsLegacy(comments[k], env) } \cup {Len(comments) + 1})
        % (Len(comments) + 1)

\* botComment: the comment matched by the marker, else the legacy comment of
\* the environment, else none; how tells which pass matched
BotComment(comments, m, env) ==
    IF FindByMarker(comments, m) # 0
    THEN [how |-> "marker", id |-> comments[FindByMarker(comments, m)].id]
    ELSE IF FindLegacy(comments, env) # 0
    THEN [how |-> "legacy", id |-> comments[FindLegacy(comments, env)].id]
    ELSE [how |-> "none", id |-> 0]

\* issues.listComments, one page: the comments of page p, PageSize a page
\* (the script asks for pages of 100)
PageSize == 2

Page(th, p) ==
    SubSeq(th, (p - 1) * PageSize + 1,
           IF p * PageSize < Len(th) THEN p * PageSize ELSE Len(th))

HasNextPage_FirstPageOnly(th, p) == FALSE

\* the response of page p links to a next page
HasNextPage(th, p) == p * PageSize < Len(th)

\* issues.updateComment: the comment id gets the body
Updated(th, id, body) ==
    [k \in 1..Len(th) |-> IF th[k].id = id THEN [th[k] EXCEPT !.body = Some(body)]
                          ELSE th[k]]

Created_OverLast(th, body) ==
    IF th = << >> THEN <<[id |-> 1, body |-> Some(body)]>>
    ELSE [th EXCEPT ![Len(th)].body = Some(body)]

\* issues.createComment: a new comment at the end of the thread
Created(th, body) == Append(th, [id |-> Len(th) + 1, body |-> Some(body)])

-----------------------------------------------------------------------------
(* The earlier versions of the script (src/unnamed/part_001 and            *)
(* src/scripts/pr-comment.js): no marker, the comment is found by its      *)
(* heading line alone.  Their input has, besides the fields of a run of    *)
(* the current version, the fmt and the cost transcripts and the actor and *)
(* the event of the workflow context.  The two versions build the same     *)
(* sections and differ in how they put them together.                      *)

EarlierFmtMaxLines == 30

EarlierInitMaxLines == 50

EarlierValidateMaxLines == 50

EarlierPlanMaxLines == 100

EarlierCostMaxLines == 100

\* the values an earlier version computes once from its files
earlierResults(e) ==
    [ e |-> e,
      fmtResult |-> truncateOutput(readFileSafe(e.fmtFile), EarlierFmtMaxLines),
      initResult |-> truncateOutput(readFileSafe(e.initFile), EarlierInitMaxLines),
      validateResult |->
          truncateOutput(readFileSafe(e.validateFile), EarlierValidateMaxLines),
      planResult |-> processPlanOutput(readFileSafe(e.planFile), EarlierPlanMaxLines),
      costOutput |-> readFileSafe(e.costFile)[1] ]

earlierHeaderSummary(e) ==
    IF Includes(planSummary(e), "to add")
    THEN "\n> :bar_chart: **" \o planSummary(e) \o "**\n"
    ELSE IF Includes(planSummary(e), "No changes")
    THEN "\n> :sparkles: **No changes.** Your infrastructure matches the configuration.\n"
    ELSE ""

earlierLockWarning(e) ==
    IF EnvIs(e, "LOCK_CHANGED", "true")
    THEN "\n> :warning: **Lock file outdated** - Run locally:\n> '''bash\n> cd "
         \o workingDirectory(e)[1]
         \o " && terraform init -upgrade && git add .terraform.lock.hcl"
         \o " && git commit -m \"chore: update terraform lock\"\n> '''\n"
    ELSE ""

earlierFmtSection(c) ==
    IF EnvIs(c.e, "FMT_OUTCOME", "failure")
    THEN "\n" \o Details(":x: Format Issues Found", "diff", c.fmtResult.text) \o "\n"
    ELSE ""

earlierInitSection(c) ==
    IF EnvIs(c.e, "INIT_OUTCOME", "failure")
    THEN "\n" \o Details(":x: Init Failed - Show Details", "", c.initResult.text)
         \o "\n"
    ELSE ""

\* the cost transcript is shown: it has text and does not report a failure
earlierHasCost(c) ==
    /\ Trim(c.costOutput) # ""
    /\ ~Includes(c.costOutput, "Cost estimation failed")

earlierCostResult(c) == truncateOutput(Some(c.costOutput), EarlierCostMaxLines)

earlierCostSection(c) ==
    IF earlierHasCost(c)
    THEN "\n#### Cost Estimation :moneybag:\n\n"
         \o Details("Show Cost Breakdown", "", earlierCostResult(c).text) \o "\n"
    ELSE ""

\* hasTruncation: one of the truncators that ran has cut its text
earlierHasTruncation(c) ==
    \/ c.fmtResult.truncated \/ c.initResult.truncated
    \/ c.validateResult.truncated \/ c.planResult.truncated
    \/ (earlierHasCost(c) /\ earlierCostResult(c).truncated)

earlierPlanSection(c) ==
    IF EnvIs(c.e, "INIT_OUTCOME", "failure")
    THEN "#### Terraform Plan :book: 'skipped' :fast_forward:\n\n"
         \o "> :x: **Terraform init failed!** Fix the errors above before merging."
         \o earlierInitSection(c)
    ELSE IF EnvIs(c.e, "VALIDATE_OUTCOME", "failure")
    THEN "#### Terraform Plan :book: 'skipped' :fast_forward:\n\n"
         \o Details("Validation Failed - Show Details", "", c.validateResult.text)
         \o "\n\n> :x: **Terraform validation failed!** Fix the errors above before merging."
    ELSE IF EnvIs(c.e, "PLAN_OUTCOME", "success")
    THEN "#### Terraform Plan :book: 'success' :white_check_mark:\n\n"
         \o Details("Show Plan", "terraform", c.planResult.text)
         \o earlierCostSection(c)
    ELSE IF EnvIs(c.e, "PLAN_OUTCOME", "failure")
    THEN "#### Terraform Plan :book: 'failure' :x:\n\n"
         \o Details("Plan Failed - Show Details", "", c.planResult.text)
         \o "\n\n> :x: **Terraform plan failed!** Fix the errors above before merging."
    ELSE "#### Terraform Plan :book: 'skipped' :fast_forward:\n\n> Plan was skipped."

earlierValidateSection(c) ==
    IF EnvIs(c.e, "INIT_OUTCOME", "failure")
    THEN "#### Terraform Validation :robot: 'skipped'"
    ELSE IF EnvIs(c.e, "VALIDATE_OUTCOME", "failure")
    THEN "#### Terraform Validation :robot: 'failure' :x:"
    ELSE "#### Terraform Validation :robot: '" \o TemplateStr(c.e.VALIDATE_OUTCOME)
         \o "' :white_check_mark:\n\n"
         \o Details("Validation Output", "", c.validateResult.text)

\* ' :x:' after the outcome 'failure', ' :white_check_mark:' after any other
earlierOutcomeMark(e, name) ==
    IF EnvIs(e, name, "failure") THEN " :x:" ELSE " :white_check_mark:"

earlierFmtLine(c) ==
    "#### Terraform Format and Style :paintbrush: '" \o TemplateStr(c.e.FMT_OUTCOME)
    \o "'" \o earlierOutcomeMark(c.e, "FMT_OUTCOME") \o earlierFmtSection(c)

earlierInitLine(c) ==
    "#### Terraform Initialization :gear: '" \o TemplateStr(c.e.INIT_OUTCOME)
    \o "'" \o earlierOutcomeMark(c.e, "INIT_OUTCOME")

earlierPushedBy(e) ==
    "*Pushed by: @" \o e.actor \o ", Action: '" \o e.eventName \o "'*"

earlierLogsLink(e) ==
    "**:warning: Output truncated due to length. [View full logs]("
    \o TemplateStr(e.GITHUB_SERVER_URL) \o "/" \o TemplateStr(e.GITHUB_REPOSITORY)
    \o "/actions/runs/" \o TemplateStr(e.GITHUB_RUN_ID) \o ").**"

\* the comment of src/unnamed/part_001: one template
templateCommentOf(c) ==
    "## Terraform " \o TemplateStr(environment(c.e)) \o "\n"
    \o earlierHeaderSummary(c.e) \o earlierLockWarning(c.e) \o "\n"
    \o earlierFmtLine(c) \o "\n"
    \o earlierInitLine(c) \o "\n"
    \o earlierValidateSection(c) \o "\n\n"
    \o earlierPlanSection(c) \o "\n\n"
    \o earlierPushedBy(c.e)
    \o (IF earlierHasTruncation(c) THEN "\n\n" \o earlierLogsLink(c.e) ELSE "")

\* the comment of src/scripts/pr-comment.js: the parts that are not empty,
\* joined by newlines
joinedCommentOf(c) ==
    Join(FilterBoolean(<< "## Terraform " \o TemplateStr(environment(c.e)),
                          earlierHeaderSummary(c.e),
                          earlierLockWarning(c.e),
                          earlierFmtLine(c),
                          earlierInitLine(c),
                          earlierValidateSection(c),
                          "",
                          earlierPlanSection(c),
                          "",
                          earlierPushedBy(c.e),
                          IF earlierHasTruncation(c)
                          THEN "\n" \o earlierLogsLink(c.e) ELSE "" >>), "\n")

EarlierVersions == {"template", "joined"}

earlierComment(v, e) ==
    CHOOSE text \in { IF v = "template" THEN templateCommentOf(c)
                      ELSE joinedCommentOf(c) : c \in {earlierResults(e)} } : TRUE

\* c => c.body && c.body.includes(`## Terraform ${environment}\n`)
HasHeadingLine(c, env) ==
    /\ c.body # undefined /\ c.body # Some("")
    /\ Includes(c.body[1], "## Terraform " \o TemplateStr(env) \o "\n")

\* comments.find of an earlier version: the position of the first comment
\* with the heading line, 0 when there is none
FindByHeadingLine(comments, env) ==
    Min({ k \in 1..Len(comments) : HasHeadingLine(comments[k], env) }
        \cup {Len(comments) + 1}) % (Len(comments) + 1)

-----------------------------------------------------------------------------
(* The first version of the publisher: the inline script of the step       *)
(* actions/github-script of src/action.yml.  Its input is the record of    *)
(* its environment variables (the outcomes, the outputs of validate and of *)
(* plan) and of the actor and the event of the workflow context.  It lists *)
(* the thread with one call of listComments, that is the first page of the *)
(* default size, and matches by the heading without the end of its line.   *)

InlineMaxLines == 100

InlineKeptLines == 50

planStartIndicators ==
    << "Note: Objects have changed outside of Terraform",
       "Terraform will perform the following actions:",
       "No changes. Your infrastructure matches the configuration.",
       "Planning failed. Terraform encountered an error while generating this plan.",
       "Plan:",
       "Changes to Outputs:" >>

\* the loop over the lines: the first line that holds a plan start
\* indicator, counted from 0, -1 when there is none
planStartIndex(lines) ==
    LET hits == { k \in 1..Len(lines) :
                    \E i \in 1..Len(planStartIndicators) :
                        Includes(lines[k], planStartIndicators[i]) }
    IN  IF hits = {} THEN -1 ELSE Min(hits) - 1

\* truncateOutput of the inline script: the text it returns, and whether it
\* set hasLongOutput
inlineTruncateOutput(output, maxLines) ==
    IF output = undefined \/ output = Some("")
    THEN [text |-> "No output available", long |-> FALSE]
    ELSE LET lines == Split(output[1], "\n")
             relevantLines == IF planStartIndex(lines) >= 0
                              THEN SliceFrom(lines, planStartIndex(lines))
                              ELSE lines
         IN  IF Len(relevantLines) <= maxLines
             THEN [text |-> Join(relevantLines, "\n"), long |-> FALSE]
             ELSE [text |-> "... (" \o ToString(Len(relevantLines) - InlineKeptLines)
                            \o " lines truncated) ...\n\n"
                            \o Join(SliceFrom(relevantLines, 0 - InlineKeptLines), "\n"),
                   long |-> TRUE]

\* a || b for two values that are a string or undefined
OrValue(a, b) == IF a = undefined \/ a = Some("") THEN b ELSE a

\* the output the plan section embeds, truncated; no output is truncated
\* when the plan was skipped
inlineOutput(e) ==
    IF EnvIs(e, "VALIDATE_OUTCOME", "failure")
    THEN inlineTruncateOutput(e.VALIDATE_OUTPUT, InlineMaxLines)
    ELSE IF EnvIs(e, "PLAN_OUTCOME", "success")
    THEN inlineTruncateOutput(e.PLAN_OUTPUT, InlineMaxLines)
    ELSE IF EnvIs(e, "PLAN_OUTCOME", "failure")
    THEN inlineTruncateOutput(OrValue(e.PLAN_ERROR, e.PLAN_OUTPUT), InlineMaxLines)
    ELSE [text |-> "", long |-> FALSE]

inlinePlanSection(e) ==
    IF EnvIs(e, "VALIDATE_OUTCOME", "failure")
    THEN "#### Terraform Plan :book: 'skipped' :fast_forward:\n\n"
         \o Details("Validation Failed - Show Details", "", inlineOutput(e).text)
         \o "\n\n> :x: **Terraform validation failed!** Fix the errors above before merging."
    ELSE IF EnvIs(e, "PLAN_OUTCOME", "success")
    THEN "#### Terraform Plan :book: 'success' :white_check_mark:\n\n"
         \o Details("Show Plan", "terraform", inlineOutput(e).text)
    ELSE IF EnvIs(e, "PLAN_OUTCOME", "failure")
    THEN "#### Terraform Plan :book: 'failure' :x:\n\n"
         \o Details("Plan Failed - Show Details", "", inlineOutput(e).text)
         \o "\n\n> :x: **Terraform plan failed!** Fix the errors above before merging."
    ELSE "#### Terraform Plan :book: 'skipped' :fast_forward:\n\n"
         \o "> Plan was skipped due to validation failure."

\* the comment of the inline script
inlineComment(e) ==
    "## Terraform " \o TemplateStr(e.ENVIRONMENT) \o "\n"
    \o "#### Terraform Format and Style :paintbrush: '"
    \o TemplateStr(e.FMT_OUTCOME) \o "'\n"
    \o "#### Terraform Initialization :gear: '" \o TemplateStr(e.INIT_OUTCOME) \o "'\n"
    \o "#### Terraform Validation :robot: '" \o TemplateStr(e.VALIDATE_OUTCOME)
    \o "'\n\n"
    \o Details("Validation Output", "",
               OrElse(e.VALIDATE_OUTPUT, "No validation output"))
    \o "\n\n"
    \o inlinePlanSection(e) \o "\n\n"
    \o "*Pushed by: @" \o e.actor \o ", Action: '" \o e.eventName \o "'*"
    \o (IF inlineOutput(e).long
        THEN "\n\n**:warning: Output truncated due to length. [View full logs]("
             \o TemplateStr(e.GITHUB_SERVER_URL) \o "/"
             \o TemplateStr(e.GITHUB_REPOSITORY) \o "/actions/runs/"
             \o TemplateStr(e.GITHUB_RUN_ID) \o ").**"
        ELSE "")

\* comments.find(comment => comment.body.includes('## Terraform ' + environment)):
\* the comments are tried in order; a comment without body makes includes
\* throw, a comment whose body holds the heading is found
\* (body undefined: the call throws; body '': no match)
InlineStops(c, env) ==
    \/ c.body = undefined
    \/ Includes(c.body[1], "## Terraform " \o TemplateStr(env))

\* the outcome of the find: the position of the first comment that stops
\* it and whether that comment made it throw; position 0 when none stops it
InlineFind(comments, env) ==
    LET stops == { k \in 1..Len(comments) : InlineStops(comments[k], env) }
    IN  IF stops = {} THEN [at |-> 0, throws |-> FALSE]
        ELSE [at |-> Min(stops), throws |-> comments[Min(stops)].body = undefined]

\* the comments of a page when the call names no page size (30 for the
\* server, fewer than the pages of 100 the later versions ask for)
DefaultPageSize == 1

\* issues.listComments without page and per_page: the first page
FirstPage(th) ==
    SubSeq(th, 1, IF DefaultPageSize < Len(th) THEN DefaultPageSize ELSE Len(th))

-----------------------------------------------------------------------------
(* The post specification: one run of the current version from its inputs  *)
(* to its write, on a thread that a run of an earlier publisher (one of    *)
(* the two earlier versions of the script, or the inline script of         *)
(* action.yml) writes to at the same time.  The thread may change between  *)
(* two pages of a listing and between a listing and the write that follows *)
(* it.  No comment is deleted.                                             *)

\* the transcripts of a run of the post specification
PostInitFile == Some("Initializing the backend...\nError: bad block\n\n  on main.tf line 1:")

PostValidateFile ==
    Some("Warning: Deprecated attribute\n\n  on outputs.tf line 35\n\n"
         \o "Success! The configuration is valid, but there were some validation warnings")

PostPlanFile ==
    Some("Refreshing state...\nTerraform will perform the following actions:\n\n"
         \o "  # aws_instance.web will be created\n  + resource\n\n"
         \o "Plan: 1 to add, 0 to change, 0 to destroy.")

\* the inputs: each transcript present or absent, each of init, validate and
\* plan succeeded or failed; the workflow passes a plan summary when there is
\* a plan transcript
PostInputs ==
    { [BaseEnv EXCEPT !.INIT_OUTCOME = o[1], !.VALIDATE_OUTCOME = o[2],
                      !.PLAN_OUTCOME = o[3],
                      !.initFile = f[1], !.validateFile = f[2], !.planFile = f[3],
                      !.PLAN_SUMMARY = IF f[3] = undefined THEN undefined
                                       ELSE BaseEnv.PLAN_SUMMARY] :
        o \in {Some("success"), Some("failure")} \X {Some("success"), Some("failure")}
              \X {Some("success"), Some("failure")},
        f \in {undefined, PostInitFile} \X {undefined, PostValidateFile}
              \X {undefined, PostPlanFile} }

\* the environments of the run of an earlier publisher
EarlierEnvs == {"prod", "prod-eu"}

\* the input of the run of an earlier version for the environment env: no
\* transcript, every stage succeeded
EarlierEnv(env) ==
    [BaseEnv EXCEPT !.ENVIRONMENT = Some(env), !.PLAN_SUMMARY = undefined]
    @@ [ fmtFile |-> undefined, costFile |-> undefined,
         actor |-> "dev", eventName |-> "pull_request" ]

\* github.paginate of the run: the next page of the listing arrives
PostList ==
    /\ rOut # << >>
    /\ rPost.pc \in {"idle", "listing"}
    /\ rPost' = [rPost EXCEPT !.comments = @ \o Page(rThread, rPost.page),
                              !.page = @ + 1,
                              !.pc = IF HasNextPage(rThread, rPost.page)
                                     THEN "listing" ELSE "listed"]
    /\ UNCHANGED <<rIn, rOut, rThread, eRun>>

\* the one write of the run once its match is b: the matched comment is
\* updated, or a comment is created when none matched
WriteAs(b) ==
    /\ rPost.pc = "listed"
    /\ \E written \in { IF b.how # "none"
                        THEN Updated(rThread, b.id, rOut.comment)
                        ELSE Created(rThread, rOut.comment) } :
         /\ rThread' = written
         /\ rPost' = [rPost EXCEPT !.pc = "done", !.how = b.how,
                                   !.op = IF b.how # "none" THEN "update" ELSE "create",
                                   !.target = IF b.how # "none" THEN b.id
                                              ELSE Len(rThread) + 1,
                                   !.before = rThread,
                                   !.after = written,
                                   !.writes = @ + 1]
    /\ UNCHANGED <<rIn, rOut, eRun>>

\* the match over the listed comments and the one write that follows it
PostWrite ==
    \E b \in {BotComment(rPost.comments, marker(rIn), environment(rIn))} : WriteAs(b)

\* a run of the earlier version v starts for the environment env: its
\* comment is built, then the listing begins
EarlierStart(v, env) ==
    /\ eRun.pc = "idle"
    /\ eRun' = [eRun EXCEPT !.pc = "listing", !.version = v, !.env = env]
    /\ UNCHANGED <<rIn, rOut, rPost, rThread>>

\* github.paginate of the earlier version: the next page arrives
EarlierList ==
    /\ eRun.pc = "listing"
    /\ eRun.version \in EarlierVersions
    /\ eRun' = [eRun EXCEPT !.comments = @ \o Page(rThread, eRun.page),
                            !.page = @ + 1,
                            !.pc = IF HasNextPage(rThread, eRun.page)
                                   THEN "listing" ELSE "listed"]
    /\ UNCHANGED <<rIn, rOut, rPost, rThread>>

\* the match of the earlier version by the heading line, and its write
EarlierWrite ==
    /\ eRun.pc = "listed"
    /\ eRun.version \in EarlierVersions
    /\ \E k \in {FindByHeadingLine(eRun.comments, Some(eRun.env))},
          body \in {earlierComment(eRun.version, EarlierEnv(eRun.env))} :
         /\ rThread' = IF k # 0 THEN Updated(rThread, eRun.comments[k].id, body)
                       ELSE Created(rThread, body)
         /\ eRun' = [eRun EXCEPT !.pc = "done",
                                 !.op = IF k # 0 THEN "update" ELSE "create",
                                 !.target = IF k # 0 THEN eRun.comments[k].id
                                            ELSE Len(rThread) + 1]
    /\ UNCHANGED <<rIn, rOut, rPost>>

\* the threads before the run: empty, a comment without body, a review
\* remark followed by the comment of an earlier run of the same triple, and
\* the comment an earlier version left for the environment 'prod-eu'
PostThreads ==
    { << >>,
      << [id |-> 1, body |-> undefined] >>,
      << [id |-> 1, body |-> Some("LGTM")],
         [id |-> 2, body |-> Some(comment(BaseEnv))] >>,
      << [id |-> 1, body |-> Some(earlierComment("template", EarlierEnv("prod-eu")))] >> }

\* the input of the run of the inline script for the environment env: every
\* stage succeeded, validate printed its message, plan printed nothing
InlineEnv(env) ==
    [ ENVIRONMENT |-> Some(env),
      FMT_OUTCOME |-> Some("success"),
      INIT_OUTCOME |-> Some("success"),
      VALIDATE_OUTCOME |-> Some("success"),
      PLAN_OUTCOME |-> Some("success"),
      VALIDATE_OUTPUT |-> Some("Success! The configuration is valid.\n"),
      PLAN_OUTPUT |-> undefined,
      PLAN_ERROR |-> undefined,
      GITHUB_SERVER_URL |-> BaseEnv.GITHUB_SERVER_URL,
      GITHUB_REPOSITORY |-> BaseEnv.GITHUB_REPOSITORY,
      GITHUB_RUN_ID |-> BaseEnv.GITHUB_RUN_ID,
      actor |-> "dev",
      eventName |-> "pull_request" ]

\* a run of the inline script starts for the environment env: its comment
\* is built, then the thread is listed
InlineStart(env) ==
    /\ eRun.pc = "idle"
    /\ eRun' = [eRun EXCEPT !.pc = "listing", !.version = "inline", !.env = env]
    /\ UNCHANGED <<rIn, rOut, rPost, rThread>>

\* the one call of listComments of the inline script returns
InlineList ==
    /\ eRun.pc = "listing"
    /\ eRun.version = "inline"
    /\ eRun' = [eRun EXCEPT !.comments = FirstPage(rThread), !.pc = "listed"]
    /\ UNCHANGED <<rIn, rOut, rPost, rThread>>

\* the match of the inline script and its write; the script ends without a
\* write when the match throws
InlineWrite ==
    /\ eRun.pc = "listed"
    /\ eRun.version = "inline"
    /\ \E f \in {InlineFind(eRun.comments, Some(eRun.env))},
          body \in {inlineComment(InlineEnv(eRun.env))} :
         /\ rThread' = IF f.throws THEN rThread
                       ELSE IF f.at # 0
                       THEN Updated(rThread, eRun.comments[f.at].id, body)
                       ELSE Created(rThread, body)
         /\ eRun' = [eRun EXCEPT !.pc = IF f.throws THEN "failed" ELSE "done",
                                 !.op = IF f.throws THEN "none"
                                        ELSE IF f.at # 0 THEN "update" ELSE "create",
                                 !.target = IF f.throws THEN 0
                                            ELSE IF f.at # 0 THEN eRun.comments[f.at].id
                                            ELSE Len(rThread) + 1]
    /\ UNCHANGED <<rIn, rOut, rPost>>

PostInit ==
    /\ rIn \in PostInputs /\ rOut = << >> /\ rPost = PostIdle
    /\ rThread \in PostThreads /\ eRun = EarlierIdle

-----------------------------------------------------------------------------
(* The runs of the publish specification.  A run is configured with one    *)
(* of the Triples (environment, working directory, workflow reference);    *)
(* its transcripts are missing and its stages succeeded.                   *)

MaxRuns == 3

MaxSeed == 2

Runs == 1..MaxRuns

Triples ==
    << [env |-> "prod", dir |-> "a"],
       [env |-> "prod", dir |-> "a -->"],
       [env |-> "prod", dir |-> "b"] >>

RunEnv(t) ==
    [BaseEnv EXCEPT !.ENVIRONMENT = Some(Triples[t].env),
                    !.WORKING_DIRECTORY = Some(Triples[t].dir),
                    !.PLAN_SUMMARY = undefined]

\* the marker and the comment of a run of each triple
MarkerOf == [t \in 1..Len(Triples) |-> marker(RunEnv(t))]

CommentOf == [t \in 1..Len(Triples) |-> comment(RunEnv(t))]

\* the bodies of the comments a thread may hold before the first run: none
\* (a comment without body), a review remark, the comment of the script
\* before it wrote markers, and the comment of a run of another workflow
SeedBodies ==
    { undefined,
      Some("LGTM"),
      Some("## Terraform prod\n#### Terraform Initialization 'success'"),
      Some(comment([BaseEnv EXCEPT
               !.GITHUB_WORKFLOW_REF = Some("o/r/.github/workflows/other.yml@refs/heads/main"),
               !.PLAN_SUMMARY = undefined])) }

RECURSIVE SeedThreads(_)
SeedThreads(n) ==
    IF n = 0 THEN { << >> }
    ELSE SeedThreads(n - 1)
         \cup { Append(th, [id |-> Len(th) + 1, body |-> b]) :
                    th \in { x \in SeedThreads(n - 1) : Len(x) = n - 1 },
                    b \in SeedBodies }

IdleRun ==
    [ pc |-> "idle", cfg |-> 0, page |-> 0, comments |-> << >>,
      existing |-> 0, since |-> 0, listedAt |-> 0, wroteAt |-> 0,
      how |-> "none", op |-> "none", target |-> 0, writes |-> 0 ]

PublishIdle ==
    /\ thread = << >> /\ thread0 = << >> /\ run = << >>
    /\ overlap = FALSE /\ clock = 0 /\ claimed = << >>

PublishInit ==
    /\ thread \in SeedThreads(MaxSeed)
    /\ thread0 = thread
    /\ run = [r \in Runs |-> IdleRun]
    /\ overlap = FALSE
    /\ clock = 0
    /\ claimed = << >>

Active(r) == run[r].pc \in {"listing", "listed"}

\* run r starts with triple t: the marker and the comment are built, then
\* the listing begins
Start(r, t) ==
    /\ run[r].pc = "idle"
    /\ IF r = 1 THEN TRUE ELSE run[r - 1].pc # "idle"
    /\ run' = [run EXCEPT ![r] = [@ EXCEPT !.pc = "listing", !.cfg = t, !.page = 1,
                                           !.existing = Len(thread),
                                           !.since = clock]]
    /\ overlap' = (overlap \/ \E q \in Runs : Active(q))
    /\ UNCHANGED <<thread, thread0, clock, claimed>>

\* github.paginate fetches the next page of the listing
ListPage(r) ==
    /\ run[r].pc = "listing"
    /\ run' = [run EXCEPT ![r] =
                 [@ EXCEPT !.comments = @ \o Page(thread, run[r].page),
                           !.page = @ + 1,
                           !.pc = IF HasNextPage(thread, run[r].page)
                                  THEN "listing" ELSE "listed",
                           !.listedAt = clock]]
    /\ UNCHANGED <<thread, thread0, overlap, clock, claimed>>

\* the match over the listed comments and the one write that follows it
Publish(r) ==
    /\ run[r].pc = "listed"
    /\ \E bot \in { BotComment(run[r].comments, MarkerOf[run[r].cfg],
                               Some(Triples[run[r].cfg].env)) } :
         /\ thread' = IF bot.how # "none"
                      THEN Updated(thread, bot.id, CommentOf[run[r].cfg])
                      ELSE Created(thread, CommentOf[run[r].cfg])
         /\ run' = [run EXCEPT ![r] =
                      [@ EXCEPT !.pc = "done", !.how = bot.how,
                                !.op = IF bot.how # "none" THEN "update" ELSE "create",
                                !.target = IF bot.how # "none" THEN bot.id
                                           ELSE Len(thread) + 1,
                                !.writes = @ + 1, !.wroteAt = clock + 1]]
         /\ claimed' = IF bot.how = "legacy"
                       THEN Append(claimed, [id |-> bot.id, cfg |-> run[r].cfg,
                                             at |-> clock + 1])
                       ELSE claimed
    /\ clock' = clock + 1
    /\ UNCHANGED <<thread0, overlap>>

-----------------------------------------------------------------------------
(* Specifications                                                          *)

\* none of the helper specifications has started
HelperIdle == FilterIdle /\ ExtractIdle /\ SummaryIdle

\* the variables of the other parts
OutsideHelpers == <<markerVars, truncVars, reportVars, publishVars>>

MarkerNext == BuildMarkers /\ UNCHANGED <<truncVars, helperVars, reportVars, publishVars>>

InitMarker == MarkerInit /\ TruncIdle /\ HelperIdle /\ ReportIdle /\ PublishIdle

SpecMarker == InitMarker /\ [][MarkerNext]_vars

TruncNext ==
    \/ ApplyTruncate /\ UNCHANGED <<markerVars, helperVars, reportVars, publishVars>>
    \/ ApplyPlanChars /\ UNCHANGED <<markerVars, helperVars, reportVars, publishVars>>
    \/ ApplyPlan /\ UNCHANGED <<markerVars, helperVars, reportVars, publishVars>>

InitTrunc == TruncInit /\ MarkerIdle /\ HelperIdle /\ ReportIdle /\ PublishIdle

SpecTrunc == InitTrunc /\ [][TruncNext]_vars

ReportNext == Assemble /\ UNCHANGED <<markerVars, truncVars, helperVars, publishVars>>

InitReport == ReportInit /\ MarkerIdle /\ TruncIdle /\ HelperIdle /\ PublishIdle

SpecReport == InitReport /\ [][ReportNext]_vars

\* the variables outside the run of the post specification
OutsidePost == <<markerVars, truncVars, helperVars, publishVars>>

PostNext ==
    \/ Assemble /\ UNCHANGED OutsidePost
    \/ PostList /\ UNCHANGED OutsidePost
    \/ PostWrite /\ UNCHANGED OutsidePost
    \/ \E v \in EarlierVersions, env \in EarlierEnvs :
          EarlierStart(v, env) /\ UNCHANGED OutsidePost
    \/ EarlierList /\ UNCHANGED OutsidePost
    \/ EarlierWrite /\ UNCHANGED OutsidePost
    \/ \E env \in EarlierEnvs : InlineStart(env) /\ UNCHANGED OutsidePost
    \/ InlineList /\ UNCHANGED OutsidePost
    \/ InlineWrite /\ UNCHANGED OutsidePost

InitPost == PostInit /\ MarkerIdle /\ TruncIdle /\ HelperIdle /\ PublishIdle

SpecPost == InitPost /\ [][PostNext]_vars

FilterNext ==
    \/ ApplyFilterInit /\ UNCHANGED <<OutsideHelpers, extractVars, summaryVars>>
    \/ ApplyFilterValidate /\ UNCHANGED <<OutsideHelpers, extractVars, summaryVars>>

InitFilter ==
    /\ FilterInit /\ ExtractIdle /\ SummaryIdle
    /\ MarkerIdle /\ TruncIdle /\ ReportIdle /\ PublishIdle

SpecFilter == InitFilter /\ [][FilterNext]_vars

ExtractNext == ApplyExtract /\ UNCHANGED <<OutsideHelpers, filterVars, summaryVars>>

InitExtract ==
    /\ ExtractInit /\ FilterIdle /\ SummaryIdle
    /\ MarkerIdle /\ TruncIdle /\ ReportIdle /\ PublishIdle

SpecExtract == InitExtract /\ [][ExtractNext]_vars

SummaryNext == ApplySummary /\ UNCHANGED <<OutsideHelpers, filterVars, extractVars>>

InitSummary ==
    /\ SummaryInit /\ FilterIdle /\ ExtractIdle
    /\ MarkerIdle /\ TruncIdle /\ ReportIdle /\ PublishIdle

SpecSummary == InitSummary /\ [][SummaryNext]_vars

PublishNext ==
    \/ \E r \in Runs, t \in 1..Len(Triples) :
          Start(r, t) /\ UNCHANGED <<markerVars, truncVars, helperVars, reportVars>>
    \/ \E r \in Runs : ListPage(r) /\ UNCHANGED <<markerVars, truncVars, helperVars, reportVars>>
    \/ \E r \in Runs : Publish(r) /\ UNCHANGED <<markerVars, truncVars, helperVars, reportVars>>

InitPublish == PublishInit /\ MarkerIdle /\ TruncIdle /\ HelperIdle /\ ReportIdle

SpecPublish == InitPublish /\ [][PublishNext]_vars

-----------------------------------------------------------------------------
(* Claims about buildCommentMarker (under SpecMarker)                      *)

\* C3: for one environment and one workflow reference, the markers of two
\* different working directories are different strings and neither is a
\* substring of the other.
C3_DistinctDirsNoSubstring ==
    (mOut # << >> /\ mEnvA = mEnvB /\ mDirA # mDirB)
        => /\ mOut[1] # mOut[2]
           /\ ~Includes(mOut[1], mOut[2])
           /\ ~Includes(mOut[2], mOut[1])

\* C4: under one workflow reference, two distinct (environment, working
\* directory) pairs never produce equal markers.
C4_InjectiveInPair ==
    (mOut # << >> /\ <<mEnvA, mDirA>> # <<mEnvB, mDirB>>) => mOut[1] # mOut[2]

-----------------------------------------------------------------------------
(* Claims about the truncators (under SpecTrunc)                           *)

\* the last line of a content
LastLine(s) == Split(s, "\n")[Len(Split(s, "\n"))]

\* the number of lines a result shows after its banner (the lines of the
\* whole text when there is no banner); an empty remainder shows none
ShownLines(r) ==
    LET rest == IF r.truncated
                THEN SubstringFrom(r.text, IndexOf(r.text, "\n\n") + 2)
                ELSE r.text
    IN  IF rest = "" THEN 0 ELSE Len(Split(rest, "\n"))

\* C9: for every content and every line limit N, the text truncateOutput
\* returns shows at most N lines of the content (besides the banner of a
\* truncated text); the sentinel of an empty content shows none.
C9_AtMostLimitLines ==
    tLines # << >>
        => \/ tLines[1] = NoOutput
           \/ ShownLines(tLines[1]) <= tLimit

\* C10: for every content that is not empty and every limit N >= 1, the last
\* line of the content occurs verbatim in the text returned by the line-bounded
\* truncator and in the text returned by the character-bounded plan truncation.
C10_LastLineKept ==
    ~IsNoPlan(tContent)
        => /\ (tLines # << >> /\ tLimit >= 1)
                  => Includes(tLines[1].text, LastLine(tContent[1]))
           /\ tChars # << >> => Includes(tChars[1].text, LastLine(tContent[1]))

\* the text a truncated result shows after its banner
KeptOf(r) == SubstringFrom(r.text, IndexOf(r.text, "\n\n") + 2)

\* the relevant section of a plan content, as one text
PlanText(content) == Join(Relevant(content), "\n")

\* the character of the plan text just before the kept text
BeforeKept(content, r) ==
    CharAt(PlanText(content), Len(PlanText(content)) - Len(KeptOf(r)) - 1)

\* C11: whenever the character-bounded plan truncation truncates, the kept
\* text starts just after a newline of the plan text, also when the last
\* line is longer than the limit.
C11_KeptStartsAfterNewline ==
    (tChars # << >> /\ tChars[1].truncated)
        => BeforeKept(tContent[1], tChars[1]) = "\n"

\* the number of lines of a text, as split('\n') counts them
LineCount(s) == Len(Split(s, "\n"))

\* the result r of truncating the text input starts with the banner that
\* states the number of lines of input that are not in the kept text
BannerIsDropped(input, r) ==
    StartsWithAt(r.text, Banner(LineCount(input) - LineCount(KeptOf(r))), 1)

\* C12: whenever a truncation occurs (limit N >= 1), the number in the banner
\* is the number of input lines minus the number of kept lines, in the
\* line-bounded truncator and in the character-bounded plan truncation.
C12_BannerCountsDropped ==
    /\ (tLines # << >> /\ tLimit >= 1 /\ tLines[1].truncated)
          => BannerIsDropped(tContent[1], tLines[1])
    /\ (tChars # << >> /\ tChars[1].truncated)
          => BannerIsDropped(PlanText(tContent[1]), tChars[1])
-----------------------------------------------------------------------------
(* Claims about the assembled comment (under SpecReport)                   *)

\* the truncation notice is part of the assembled comment
NoticeShown == Includes(rOut.comment, "Output truncated due to length.")

\* the bounded text res was truncated and is embedded in the comment
TruncatedAndRendered(res) == res.truncated /\ Includes(rOut.comment, res.text)

\* C8: the truncation notice is in the comment if and only if a transcript
\* whose text is embedded in the comment was truncated; a truncated
\* transcript that is not rendered never triggers it.
C8_NoticeIffRenderedTruncated ==
    rOut # << >>
        => (NoticeShown <=>
               \/ TruncatedAndRendered(rOut.initResult)
               \/ TruncatedAndRendered(rOut.validateResult)
               \/ TruncatedAndRendered(rOut.planResult))

-----------------------------------------------------------------------------
(* Claims about the publish step (SpecPublish)                             *)

Started == { r \in Runs : run[r].pc # "idle" }

Done == { r \in Runs : run[r].pc = "done" }

RunMarker(r) == MarkerOf[run[r].cfg]

RunHeadingEnv(r) == Some(Triples[run[r].cfg].env)

\* the comments of thread th that contain the marker m
Carrying(th, m) == { k \in 1..Len(th) : HasMarker(th[k], m) }

\* the comment id of the thread contains the marker m
Carries(id, m) == \E k \in 1..Len(thread) : thread[k].id = id /\ HasMarker(thread[k], m)

\* every run started so far has the triple t, no two runs overlapped, and
\* the thread began without a comment the triple t matches
SequentialFrom(t) ==
    /\ ~overlap
    /\ \A r \in Started : run[r].cfg = t
    /\ \A k \in 1..Len(thread0) :
          /\ ~HasMarker(thread0[k], MarkerOf[t])
          /\ ~IsLegacy(thread0[k], Some(Triples[t].env))

\* C1: in a sequence of runs of one triple that do not overlap, on a thread
\* that began without a comment the triple matches, the first run creates a
\* comment, every later run updates that very comment, and at most one
\* comment contains the marker.
C1_FirstCreatesLaterUpdate ==
    \A t \in 1..Len(Triples) :
        SequentialFrom(t) =>
            /\ 1 \in Done => run[1].op = "create"
            /\ \A r \in Done \ {1} :
                  run[r].op = "update" /\ run[r].target = run[1].target
            /\ Cardinality(Carrying(thread, MarkerOf[t])) <= 1

C1_Witness ==
    /\ Done = Runs
    /\ SequentialFrom(run[1].cfg)
    /\ thread0 # << >>
    /\ run[MaxRuns].op = "update"
    /\ Cardinality(Carrying(thread, RunMarker(1))) = 1

\* the comment c carries a marker of another triple or workflow and not the
\* marker m
ForeignMarked(c, m) ==
    /\ c.body # undefined
    /\ Includes(c.body[1], MarkerOpen)
    /\ ~Includes(c.body[1], m)

\* the comment a run matched, as the run listed it
Listed(r, id) == CHOOSE c \in { run[r].comments[k] : k \in 1..Len(run[r].comments) } : c.id = id

ListedComments(r) == { run[r].comments[k] : k \in 1..Len(run[r].comments) }

\* C2: a run never updates a comment that carries a foreign marker and not
\* its own, even when the comment holds the heading of the run's
\* environment; with no other comment to match, the run creates a comment.
C2_ForeignMarkerNeverSelected ==
    \A r \in Done :
        /\ run[r].op = "update" => ~ForeignMarked(Listed(r, run[r].target), RunMarker(r))
        /\ ( \A c \in ListedComments(r) :
                \/ ForeignMarked(c, RunMarker(r))
                \/ ~HasMarker(c, RunMarker(r)) /\ ~IsLegacy_HeadingOnly(c, RunHeadingEnv(r)) )
           => run[r].op = "create"

C2_Witness ==
    \E r \in Done :
        /\ run[r].op = "create"
        /\ \E c \in ListedComments(r) :
              /\ ForeignMarked(c, RunMarker(r))
              /\ IsLegacy_HeadingOnly(c, RunHeadingEnv(r))

\* the listing of run r holds no comment that its marker or its legacy
\* heading matches
FoundNothing(r) ==
    \A c \in ListedComments(r) :
        ~HasMarker(c, RunMarker(r)) /\ ~IsLegacy(c, RunHeadingEnv(r))

\* two runs of one triple that both finished listing before either wrote
Raced(r1, r2) ==
    /\ r1 # r2 /\ r1 \in Done /\ r2 \in Done
    /\ run[r1].cfg = run[r2].cfg
    /\ run[r1].listedAt < run[r2].wroteAt
    /\ run[r2].listedAt < run[r1].wroteAt

\* no run other than r1 and r2 has written since the first of the two wrote
OnlyTheyWrote(r1, r2) ==
    /\ clock = Max({run[r1].wroteAt, run[r2].wroteAt})
    /\ \A r3 \in Done \ {r1, r2} :
          run[r3].wroteAt < Min({run[r1].wroteAt, run[r2].wroteAt})

\* C5: two runs of one triple that both list the thread before either
\* writes, and both find no comment of theirs, both create a comment; when
\* both have written and no other run wrote meanwhile, two comments carry
\* the same marker.
C5_RaceLeavesTwoComments ==
    \A r1, r2 \in Runs :
        (Raced(r1, r2) /\ FoundNothing(r1) /\ FoundNothing(r2)) =>
            /\ run[r1].op = "create" /\ run[r2].op = "create"
            /\ run[r1].target # run[r2].target
            /\ OnlyTheyWrote(r1, r2) =>
                  /\ Carries(run[r1].target, RunMarker(r1))
                  /\ Carries(run[r2].target, RunMarker(r1))
                  /\ Cardinality(Carrying(thread, RunMarker(r1))) >= 2

C5_Witness ==
    \E r1, r2 \in Runs :
        /\ Raced(r1, r2) /\ FoundNothing(r1) /\ FoundNothing(r2)
        /\ overlap /\ OnlyTheyWrote(r1, r2)
        /\ run[r1].op = "create" /\ run[r2].op = "create"
        /\ Cardinality(Carrying(thread, RunMarker(r1))) >= 2

\* C6: a run that completed made exactly one write call, a create or an
\* update, and made it after its listing had returned every comment that
\* existed, over however many pages; a run that has not completed made no
\* write call.  The match is over the whole listing.
C6_OneWriteAfterFullListing ==
    \A r \in Runs :
        /\ run[r].writes = (IF r \in Done THEN 1 ELSE 0)
        /\ r \in Done => run[r].op \in {"create", "update"}
        /\ run[r].pc \in {"listed", "done"} =>
              /\ Len(run[r].comments) >= run[r].existing
              /\ \A k \in 1..Len(run[r].comments) : run[r].comments[k].id = k
        /\ (r \in Done /\ run[r].op = "create") => FoundNothing(r)
        /\ (r \in Done /\ run[r].op = "update") =>
              \E c \in ListedComments(r) : c.id = run[r].target

C6_Witness ==
    \E r \in Done :
        /\ run[r].existing > PageSize
        /\ Len(run[r].comments) > PageSize
        /\ run[r].op = "update"
        /\ run[r].target > PageSize

\* C7: the fallback is used only by a run whose listing holds no comment
\* with its marker; the comment it claims then contains the marker of the
\* claiming run; and a run whose listing began after the claim selects that
\* comment only through the marker pass and only if it has the triple of the
\* claiming run.
C7_LegacyOneWay ==
    /\ \A r \in Done :
          run[r].how = "legacy" =>
              \A c \in ListedComments(r) : ~HasMarker(c, RunMarker(r))
    /\ \A k \in 1..Len(claimed) :
          /\ clock = claimed[k].at => Carries(claimed[k].id, MarkerOf[claimed[k].cfg])
          /\ \A r \in Done :
                (/\ run[r].since >= claimed[k].at
                 /\ run[r].op = "update"
                 /\ run[r].target = claimed[k].id)
                => /\ run[r].how = "marker"
                   /\ run[r].cfg = claimed[k].cfg

-----------------------------------------------------------------------------
(* Claims about the filters (under SpecFilter)                             *)

\* the position (from 0) just after the first retry separator of c, 0 when c
\* has no separator
AfterSeparator(c) ==
    IF IndexOf(c, separator) >= 0 THEN IndexOf(c, separator) + Len(separator) ELSE 0

HasSeparator(c) == IndexOf(c, separator) >= 0

\* the line of c that starts at position q (from 0)
LineAt(c, q) ==
    Substring(c, q, IF IndexOfFrom(c, "\n", q) >= 0 THEN IndexOfFrom(c, "\n", q) ELSE Len(c))

\* q is the start of the first line with 'Error:' at or after position p
FirstErrorLine(c, p, q) ==
    /\ q = p \/ CharAt(c, q - 1) = "\n"
    /\ Includes(LineAt(c, q), "Error:")
    /\ ~Includes(Substring(c, p, q), "Error:")

\* C13: when the transcript holds the retry separator and a line with
\* 'Error:' after it, filterInitOutput returns the text from the first such
\* line to the end, trimmed: nothing from before the separator and nothing
\* between the separator and that line.
C13_FromFirstErrorAfterSeparator ==
    (/\ fInit # << >> /\ fContent # undefined
     /\ HasSeparator(fContent[1])
     /\ Includes(SubstringFrom(fContent[1], AfterSeparator(fContent[1])), "Error:"))
        => \E q \in AfterSeparator(fContent[1])..Len(fContent[1]) :
              /\ FirstErrorLine(fContent[1], AfterSeparator(fContent[1]), q)
              /\ fInit[1] = Some(Trim(SubstringFrom(fContent[1], q)))

C13_Witness ==
    /\ fInit # << >> /\ fContent # undefined
    /\ HasSeparator(fContent[1])
    /\ Includes(Substring(fContent[1], 0, IndexOf(fContent[1], separator)), "Error:")
    /\ \E q \in (AfterSeparator(fContent[1]) + 2)..Len(fContent[1]) :
          /\ FirstErrorLine(fContent[1], AfterSeparator(fContent[1]), q)
          /\ fInit[1] = Some(Trim(SubstringFrom(fContent[1], q)))

\* C14: when no line of the relevant segment (the text after the separator,
\* the whole text without one) holds 'Error:', filterInitOutput returns the
\* input unchanged, first attempt and separator included.
C14_NoErrorReturnsInput ==
    (/\ fInit # << >> /\ fContent # undefined
     /\ ~Includes(SubstringFrom(fContent[1], AfterSeparator(fContent[1])), "Error:"))
        => fInit[1] = fContent

C14_Witness ==
    /\ fInit # << >> /\ fContent # undefined
    /\ HasSeparator(fContent[1])
    /\ Includes(Substring(fContent[1], 0, IndexOf(fContent[1], separator)), "Error:")
    /\ ~Includes(SubstringFrom(fContent[1], AfterSeparator(fContent[1])), "Error:")
    /\ Trim(SubstringFrom(fContent[1], AfterSeparator(fContent[1]))) # ""
    /\ fInit[1] = fContent

\* a line the filter is meant to keep: a message head, or a context line
\* '  on <path> line N' or '  with <address>'
ProtectedLine(line) ==
    \/ StartsWithAt(line, "Warning:", 1)
    \/ StartsWithAt(line, "Error:", 1)
    \/ StartsWithAt(line, "Success!", 1)
    \/ StartsWithAt(line, "  on ", 1) /\ Includes(line, " line ")
    \/ StartsWithAt(line, "  with ", 1)

\* the line is a line of the text out (the trim of the whole text may have
\* taken blanks from the ends of its first and last line)
KeptIn(out, line) ==
    \E j \in 1..Len(Split(out, "\n")) : Trim(Split(out, "\n")[j]) = Trim(line)

\* C15: filterValidateOutput removes no line that starts with 'Warning:',
\* 'Error:' or 'Success!' and no context line, whatever else the line holds.
C15_ProtectedLinesKept ==
    (fValidate # << >> /\ ~IsBlank(fContent))
        => \A k \in 1..Len(Split(fContent[1], "\n")) :
              ProtectedLine(Split(fContent[1], "\n")[k])
                  => KeptIn(fValidate[1][1], Split(fContent[1], "\n")[k])

\* C16: filterValidateOutput applied to its own result returns that result.
C16_ValidateIdempotent ==
    fValidate # << >> => fValidate[2] = fValidate[1]

-----------------------------------------------------------------------------
(* Claims about extractResourceChanges (under SpecExtract)                 *)

\* the lines of the plan transcript
PlanLines == IF xPlan = undefined THEN << >> ELSE Split(xPlan[1], "\n")

\* the addresses of a list
Range(list) == { list[k] : k \in 1..Len(list) }

CategoryKeys == {"created", "updated", "deleted", "replaced"}

\* C17: no address returned by extractResourceChanges is in two of the four
\* lists, also when the transcript has several change lines for one address.
C17_OneCategoryPerAddress ==
    xOut # << >> =>
        \A k1, k2 \in CategoryKeys :
            k1 # k2 => Range(xOut[1][k1]) \cap Range(xOut[1][k2]) = {}

\* the transcript with two blanks put before every line that starts with '#'
Indented(lines) ==
    [k \in 1..Len(lines) |->
        IF StartsWithAt(lines[k], "#", 1) THEN "  " \o lines[k] ELSE lines[k]]

\* C18: a change line is recognised with or without whitespace before '#':
\* the lists of a transcript are those of the transcript with its lines
\* that start with '#' indented.
C18_IndentationOptional ==
    (xOut # << >> /\ xPlan # undefined) =>
        xOut[1] = extractResourceChanges(Some(Join(Indented(PlanLines), "\n")))

\* the list a line adds its address to, "none" for a line that adds nothing
ListOf(line) ==
    LET m == MatchChange(line)
    IN  IF m = << >> THEN "none"
        ELSE IF m[2] = "created" THEN "created"
        ELSE IF m[2] = "updated in-place" THEN "updated"
        ELSE IF m[2] = "destroyed" THEN "deleted"
        ELSE IF Includes(m[2], "replaced") THEN "replaced"
        ELSE "none"

\* the addresses of the lines of list key, in the order of the lines
RECURSIVE AddressesOf(_, _, _)
AddressesOf(lines, k, key) ==
    IF k > Len(lines) THEN << >>
    ELSE (IF ListOf(lines[k]) = key THEN <<MatchChange(lines[k])[1]>> ELSE << >>)
         \o AddressesOf(lines, k + 1, key)

\* C19: each list holds the addresses of the matching lines whose action
\* phrase selects it ('created', 'updated in-place', 'destroyed', a phrase
\* with 'replaced'), in the order of the lines, and nothing else.
C19_ListsByActionInOrder ==
    xOut # << >> =>
        \A key \in CategoryKeys : xOut[1][key] = AddressesOf(PlanLines, 1, key)

C19_Witness ==
    /\ xOut # << >>
    /\ xOut[1].created = <<"b", "a">>
    /\ \E k \in 1..Len(PlanLines) :
          MatchChange(PlanLines[k]) # << >> /\ ListOf(PlanLines[k]) = "none"

-----------------------------------------------------------------------------
(* Claims about buildResourceSummary (under SpecSummary)                   *)

\* the positions of the heading of category c among the lines L
HeadingAt(L, c) ==
    { p \in 1..Len(L) : L[p] = "### " \o categories[c].label }

\* position q ends a subsection: the blank line between two subsections or
\* the closing line
EndsSection(L, q) == q <= Len(L) /\ L[q] \in {"", "##"}

\* the subsection of category c: none for no entry, else one heading, the
\* bullets of the first 20 addresses at most, and for more than 20 entries
\* one bullet with the number of the others
SectionBounded(L, c) ==
    LET items == sChanges[categories[c].key]
        n == Len(items)
        shown == IF n > 20 THEN 20 ELSE n
    IN  IF n = 0 THEN HeadingAt(L, c) = {}
        ELSE /\ Cardinality(HeadingAt(L, c)) = 1
             /\ \A p \in HeadingAt(L, c) :
                   /\ p + shown + 1 <= Len(L)
                   /\ \A k \in 1..shown : L[p + k] = "- '" \o items[k] \o "'"
                   /\ IF n > 20
                      THEN /\ L[p + 21] = "- *... and " \o ToString(n - 20) \o " more*"
                           /\ EndsSection(L, p + 22)
                      ELSE EndsSection(L, p + n + 1)

\* C20: every category renders no subsection without entries, n bullets for
\* 1 <= n <= 20 entries, and the first 20 bullets and one overflow bullet
\* stating n - 20 for n > 20; the subsections come in the order created,
\* updated, deleted, replaced; with four empty lists the summary is empty.
\* (L is the summary, line by line.)
C20_SummaryBounded ==
    sOut # << >> =>
        \A L \in { Split(sOut[1], "\n") } :
            /\ \A c \in 1..Len(categories) : SectionBounded(L, c)
            /\ \A c1, c2 \in 1..Len(categories) :
                  (c1 < c2 /\ HeadingAt(L, c1) # {} /\ HeadingAt(L, c2) # {})
                      => \A p1 \in HeadingAt(L, c1), p2 \in HeadingAt(L, c2) : p1 < p2
            /\ sChanges = NoChanges => sOut[1] = ""
            /\ sChanges # NoChanges => sOut[1] # ""

C20_Witness ==
    /\ sOut # << >>
    /\ Len(sChanges.created) = 22
    /\ Len(sChanges.updated) = 20
    /\ Len(sChanges.deleted) = 0
    /\ Len(sChanges.replaced) = 1
    /\ Includes(sOut[1], "- *... and 2 more*")

-----------------------------------------------------------------------------
(* The relevant section of a plan transcript.                              *)

\* the positions (from 0) of the first occurrence of each indicator phrase
\* that occurs in c (a phrase holds no newline, so that it lies in one line)
FirstIndicators(c) ==
    { IndexOf(c, indicators[k]) : k \in 1..Len(indicators) } \ {-1}

\* the start (from 0) of the line of c that holds position p: just after the
\* last newline before p
LineStartOf(c, p) ==
    Max({0} \cup { i + 1 : i \in Occurrences(Substring(c, 0, p), "\n", 0) })

\* the content from its first indicator line on, the whole content when no
\* line names an indicator
KeptSlice(c) ==
    IF FirstIndicators(c) = {} THEN c
    ELSE SubstringFrom(c, LineStartOf(c, Min(FirstIndicators(c))))

\* C21: for a plan content that is not the empty case (absent, blank or the
\* literal 'null'), whenever the content from its first indicator line on (the
\* whole content when no line names an indicator) has at most the bound's
\* number of lines, processPlanOutput returns exactly that slice and
\* truncated is false.
C21_KeepsFromFirstIndicator ==
    (/\ tPlan # << >> /\ ~IsNoPlan(tContent)
     /\ LineCount(KeptSlice(tContent[1])) <= PlanMaxLines)
        => tPlan[1] = [text |-> KeptSlice(tContent[1]), truncated |-> FALSE]

\* a content whose first indicator line is its second line and names
\* 'Error:', with a later 'Plan:' line, processed within the bound
C21_Witness ==
    /\ tPlan # << >>
    /\ tContent = Some("\nError:\nPlan:")
    /\ tPlan[1].text = "Error:\nPlan:"
-----------------------------------------------------------------------------
(* Missing transcripts.                                                    *)

\* the collapsible sections that embed each transcript: summary and fence
SectionsOf ==
    [ initFile |-> { <<"Init Failed - Show Details", "">> },
      validateFile |-> { <<"Validation Output", "">>,
                         <<"Validation Failed - Show Details", "">> },
      planFile |-> { <<"Show Full Plan", "terraform">>,
                     <<"Plan Failed - Show Details", "">> } ]

ResultOf == [ initFile |-> "initResult", validateFile |-> "validateResult",
              planFile |-> "planResult" ]

\* the comment renders the section sec
Rendered(text, sec) == Includes(text, sec[1] \o "</summary>")

\* the section sec of the comment shows exactly 'No output available'
ShowsNoOutput(text, sec) ==
    Includes(text, sec[1] \o "</summary>\n\n'''" \o sec[2]
                   \o "\nNo output available\n'''\n\n</details>")

\* the write of the run p changed the thread by exactly one comment: a new
\* comment with body at its end, or the body of the comment it targets
OneWrite(p, body) ==
    IF p.op = "create"
    THEN /\ Len(p.after) = Len(p.before) + 1
         /\ p.after[Len(p.after)].body = Some(body)
         /\ \A k \in 1..Len(p.before) : p.after[k] = p.before[k]
    ELSE /\ p.op = "update"
         /\ Len(p.after) = Len(p.before)
         /\ \E k \in 1..Len(p.before) :
                /\ p.before[k].id = p.target
                /\ p.after[k] = [p.before[k] EXCEPT !.body = Some(body)]
                /\ \A j \in 1..Len(p.before) : j # k => p.after[j] = p.before[j]

\* C22: whatever subset of the three transcript files is absent, and
\* whatever a run of an earlier publisher does to the thread meanwhile, the
\* run can always go on: once its comment is assembled it can list, and once
\* it has listed it can write; each absent transcript is processed as empty
\* content (its bounded text is 'No output available', not truncated), every
\* section of the comment that embeds an absent transcript shows 'No output
\* available', the comment is assembled (marker, heading, details), and the
\* run makes exactly one write, a create or an update with that comment.
C22_MissingTranscriptNotFatal ==
    /\ (rOut # << >> /\ rPost.pc \in {"idle", "listing"}) => ENABLED PostList
    /\ rPost.pc = "listed" =>
          \A b \in {BotComment(rPost.comments, marker(rIn), environment(rIn))} :
              ENABLED WriteAs(b)
    /\ rPost.pc # "idle" => rOut # << >>
    /\ rOut # << >> =>
          /\ StartsWithAt(rOut.comment, marker(rIn) \o "\n## Terraform ", 1)
          /\ Includes(rOut.comment, "\n### Details\n")
          /\ \A f \in {"initFile", "validateFile", "planFile"} :
                 rIn[f] = undefined =>
                     /\ rOut[ResultOf[f]] = NoOutput
                     /\ \A sec \in SectionsOf[f] :
                            Rendered(rOut.comment, sec) => ShowsNoOutput(rOut.comment, sec)
    /\ rPost.writes = (IF rPost.pc = "done" THEN 1 ELSE 0)
    /\ rPost.pc = "done" => OneWrite(rPost, rOut.comment)

\* all three transcripts are absent, init did not fail and the plan failed:
\* the validate and the plan sections are rendered, and the run has created
\* its comment after a run of an earlier publisher wrote to the thread
C22_Witness ==
    /\ rPost.pc = "done"
    /\ rIn.initFile = undefined /\ rIn.validateFile = undefined /\ rIn.planFile = undefined
    /\ Rendered(rOut.comment, <<"Validation Output", "">>)
    /\ Rendered(rOut.comment, <<"Plan Failed - Show Details", "">>)
    /\ rPost.op = "create"
    /\ eRun.pc = "done"
    /\ Len(rPost.before) > Len(rPost.comments)

-----------------------------------------------------------------------------
(* The workflow component of the marker.                                   *)

\* the text of a workflow reference before its first '@'
BeforeAt(ref) ==
    IF IndexOf(ref, "@") >= 0 THEN Substring(ref, 0, IndexOf(ref, "@")) ELSE ref

\* a reference that is missing, or that has fewer than the three path
\* segments of owner/repo/path before its git ref
MissingOrShort(ref) ==
    \/ ref = undefined
    \/ ref = Some("")
    \/ Cardinality(Occurrences(BeforeAt(ref[1]), "/", 0)) < 2

\* C23: for a workflow reference that is missing (undefined or empty) or
\* malformed (fewer than three path segments), the marker has an empty
\* workflow component: 'workflow=' is followed directly by ':env='.
C23_MalformedRefEmptyWorkflow ==
    (mOut # << >> /\ MissingOrShort(mRef))
        => StartsWithAt(mOut[1], MarkerOpen \o "workflow=:env=", 1)
-----------------------------------------------------------------------------
(* The cells of the status table.                                          *)

\* the cell in column k of the body row of a status table
Cell(table, k) == Trim(Split(Split(table, "\n")[4], "|")[k + 1])

\* the columns of the stages and the variables that supply their outcomes
StageColumn == [ FMT_OUTCOME |-> 1, INIT_OUTCOME |-> 2,
                 VALIDATE_OUTCOME |-> 3, PLAN_OUTCOME |-> 4 ]

Stages == DOMAIN StageColumn

\* the status table of the run with the input e
TableOf(e) == CHOOSE t \in { statusTable(c) : c \in {Results(e)} } : TRUE

\* a run without transcripts in which every stage succeeded, but for the
\* outcome o of the stage s
SameOutcomeRun(s, o) == [BaseEnv EXCEPT ![s] = o]

\* the cell of stage s for each of its outcomes, in those runs
OwnOutcomeCell ==
    [ s \in Stages |->
        [ o \in Outcomes \cup {undefined} |->
            Cell(TableOf(SameOutcomeRun(s, o)), StageColumn[s]) ] ]

\* C24 as stated: the cell of each stage is a function of that stage's own
\* outcome alone, so it is the cell of any other run with the same outcome of
\* that stage, whatever the transcripts and the other outcomes are.
C24_CellOfOwnOutcomeAlone ==
    rOut # << >>
        => \A s \in Stages :
               Cell(rOut.statusTable, StageColumn[s]) = OwnOutcomeCell[s][rIn[s]]

\* the bounded validate text of the run reads exactly as a clean validation
CleanText == Trim(rOut.validateResult.text) = "Success! The configuration is valid."

\* a run without init and plan transcripts in which format succeeded, with
\* the init, validate and plan outcomes i, v and p and a clean validate
\* transcript or none
SameUpstreamRun(i, v, p, clean) ==
    [BaseEnv EXCEPT !.INIT_OUTCOME = i, !.VALIDATE_OUTCOME = v, !.PLAN_OUTCOME = p,
                    !.validateFile = IF clean
                                     THEN Some("Success! The configuration is valid.")
                                     ELSE undefined]

UpstreamCell ==
    [ i \in Outcomes |-> [ v \in Outcomes |-> [ p \in Outcomes \cup {undefined} |->
        [ clean \in BOOLEAN |->
            [ s \in {"VALIDATE_OUTCOME", "PLAN_OUTCOME"} |->
                Cell(TableOf(SameUpstreamRun(i, v, p, clean)), StageColumn[s]) ] ] ] ] ]

\* C24, amended: the format and the init cell are functions of their own
\* outcome alone; the validate cell is a function of the init outcome, the
\* validate outcome and of whether the bounded validate text is exactly
\* 'Success! The configuration is valid.'; the plan cell is a function of the
\* init, validate and plan outcomes.  No cell depends on the init or the plan
\* transcript or on any other input.
C24_CellOfOutcomesUpstream ==
    rOut # << >>
        => /\ \A s \in {"FMT_OUTCOME", "INIT_OUTCOME"} :
                  Cell(rOut.statusTable, StageColumn[s]) = OwnOutcomeCell[s][rIn[s]]
           /\ \A s \in {"VALIDATE_OUTCOME", "PLAN_OUTCOME"} :
                  Cell(rOut.statusTable, StageColumn[s])
                      = UpstreamCell[rIn.INIT_OUTCOME][rIn.VALIDATE_OUTCOME]
                                    [rIn.PLAN_OUTCOME][CleanText][s]
           /\ \A p \in Outcomes \cup {undefined}, clean \in BOOLEAN :
                  UpstreamCell[rIn.INIT_OUTCOME][rIn.VALIDATE_OUTCOME][p][clean].VALIDATE_OUTCOME
                      = UpstreamCell[rIn.INIT_OUTCOME][rIn.VALIDATE_OUTCOME]
                                    [rIn.PLAN_OUTCOME][clean].VALIDATE_OUTCOME
           /\ \A clean \in BOOLEAN :
                  UpstreamCell[rIn.INIT_OUTCOME][rIn.VALIDATE_OUTCOME]
                              [rIn.PLAN_OUTCOME][clean].PLAN_OUTCOME
                      = UpstreamCell[rIn.INIT_OUTCOME][rIn.VALIDATE_OUTCOME]
                                    [rIn.PLAN_OUTCOME][CleanText].PLAN_OUTCOME

\* a run whose validate stage succeeded with warnings in its transcript and
\* whose plan failed: the validate cell reads 'Warnings', the plan cell 'Failed'
C24_Witness ==
    /\ rOut # << >>
    /\ rIn.INIT_OUTCOME = Some("success")
    /\ rIn.VALIDATE_OUTCOME = Some("success")
    /\ rIn.PLAN_OUTCOME = Some("failure")
    /\ rIn.validateFile # undefined
    /\ rIn.planFile # undefined
    /\ Cell(rOut.statusTable, 3) = ":warning: Warnings"
    /\ Cell(rOut.statusTable, 4) = ":x: Failed"
-----------------------------------------------------------------------------
(* The Validate cell and the 'Validation Output' collapsible.              *)

NeitherFailed ==
    /\ rIn.INIT_OUTCOME # Some("failure")
    /\ rIn.VALIDATE_OUTCOME # Some("failure")

\* the validate transcript of the run after the validate filter
FilteredValidate == filterValidateOutput(readFileSafe(rIn.validateFile))

ValidateCell == Cell(rOut.statusTable, 3)

HasValidationOutput == Includes(rOut.comment, "<summary>Validation Output</summary>")

\* the comment holds the collapsible 'Validation Output' with the bounded
\* validate text of the run in its fence
ShowsValidateText ==
    Includes(rOut.comment,
             "<details><summary>Validation Output</summary>\n\n'''\n"
             \o rOut.validateResult.text \o "\n'''\n\n</details>")

\* C25: when neither init nor validate failed, the Validate cell reads
\* 'Passed' and there is no 'Validation Output' collapsible if the filtered
\* validate text is exactly 'Success! The configuration is valid.', and
\* otherwise the cell reads 'Warnings' and the collapsible with the validate
\* text is rendered; in every report the collapsible is present exactly when
\* the cell reads 'Warnings'.
C25_WarningsIffValidationOutput ==
    rOut # << >>
        => /\ (NeitherFailed
                 /\ FilteredValidate = Some("Success! The configuration is valid."))
                  => (ValidateCell = ":white_check_mark: Passed" /\ ~HasValidationOutput)
           /\ (NeitherFailed
                 /\ FilteredValidate # Some("Success! The configuration is valid."))
                  => (ValidateCell = ":warning: Warnings" /\ ShowsValidateText)
           /\ HasValidationOutput <=> ValidateCell = ":warning: Warnings"

\* a run whose validate stage succeeded with a warning in its transcript
C25_Witness ==
    /\ rOut # << >>
    /\ NeitherFailed
    /\ rIn.validateFile # undefined
    /\ Includes(rOut.validateResult.text, "Warning: Deprecated attribute")
    /\ ValidateCell = ":warning: Warnings"
    /\ ShowsValidateText
-----------------------------------------------------------------------------
(* Several retry separators.                                               *)

SeparatorsOf(c) == Occurrences(c, separator, 0)

\* the position (from 0) just after the last retry separator of c
AfterLastSeparator(c) == Max(SeparatorsOf(c)) + Len(separator)

\* C26: with more than one retry separator in the transcript,
\* filterInitOutput considers only the text after the last one: with an
\* 'Error:' line there it returns the text from the first such line on,
\* trimmed, and so nothing that precedes the last separator; without one it
\* returns the input unchanged.
C26_LastAttemptOnly ==
    (fInit # << >> /\ fContent # undefined /\ Cardinality(SeparatorsOf(fContent[1])) > 1)
        => IF Includes(SubstringFrom(fContent[1], AfterLastSeparator(fContent[1])), "Error:")
           THEN \E q \in AfterLastSeparator(fContent[1])..Len(fContent[1]) :
                   /\ FirstErrorLine(fContent[1], AfterLastSeparator(fContent[1]), q)
                   /\ fInit[1] = Some(Trim(SubstringFrom(fContent[1], q)))
           ELSE fInit[1] = fContent
-----------------------------------------------------------------------------
(* The init details of a failed init.                                      *)

\* the text shown in the 'Init Failed' collapsible of the comment is text
InitDetailsAre(text) ==
    Includes(rOut.comment,
             "Init Failed - Show Details</summary>\n\n'''\n" \o text \o "\n'''\n\n</details>")

\* C27: when init failed and the relevant segment of the init transcript has
\* an 'Error:' line, the init details embedded in the comment contain the
\* first such line: the 50-line truncation after the filter does not cut it.
C27_FirstErrorLineShown ==
    (/\ rOut # << >>
     /\ rIn.INIT_OUTCOME = Some("failure")
     /\ rIn.initFile # undefined
     /\ Includes(SubstringFrom(rIn.initFile[1], AfterSeparator(rIn.initFile[1])), "Error:"))
        => \E q \in AfterSeparator(rIn.initFile[1])..Len(rIn.initFile[1]) :
              /\ FirstErrorLine(rIn.initFile[1], AfterSeparator(rIn.initFile[1]), q)
              /\ InitDetailsAre(rOut.initResult.text)
              /\ Includes(rOut.initResult.text, LineAt(rIn.initFile[1], q))
-----------------------------------------------------------------------------
(* The legacy heading and environments with a common prefix.               *)

\* the environment named by the heading '## Terraform <name>' of a body: the
\* rest of the heading line
HeadingName(body) ==
    SubstringFrom(LineAt(body, IndexOf(body, "## Terraform ")), Len("## Terraform "))

\* the comment, as the run p listed it, that the write of p replaced
Replaced(p) ==
    p.comments[CHOOSE k \in 1..Len(p.comments) : p.comments[k].id = p.target]

\* C28: a run that falls back to the legacy heading claims a marker-less
\* comment only if its heading names exactly the run's environment; a run for
\* 'prod' never claims the comment headed '## Terraform prod-eu'.
C28_LegacyExactEnvironment ==
    (rPost.pc = "done" /\ rPost.how = "legacy")
        => HeadingName(Replaced(rPost).body[1]) = TemplateStr(environment(rIn))
-----------------------------------------------------------------------------
(* Runs of different working directories.                                  *)

\* the markers of the triples t1 and t2 differ and neither contains the other
Unrelated(t1, t2) ==
    /\ ~Includes(MarkerOf[t1], MarkerOf[t2])
    /\ ~Includes(MarkerOf[t2], MarkerOf[t1])

\* C29: two runs with the same environment and different working
\* directories never write to the same comment, however they interleave:
\* when both fall back to a marker-less comment of the environment, at most
\* one of them updates it.  (Stated for directories whose markers do not
\* contain one another.)
C29_DifferentDirsDifferentComments ==
    \A r1, r2 \in Done :
        (/\ r1 # r2
         /\ Triples[run[r1].cfg].env = Triples[run[r2].cfg].env
         /\ Triples[run[r1].cfg].dir # Triples[run[r2].cfg].dir
         /\ Unrelated(run[r1].cfg, run[r2].cfg))
            => run[r1].target # run[r2].target
-----------------------------------------------------------------------------
(* The resource summary of a run whose plan is not rendered.               *)

\* the plan transcript of the run is not rendered: init failed, validate
\* failed, or the plan outcome is neither success nor failure
PlanNotRendered ==
    \/ rIn.INIT_OUTCOME = Some("failure")
    \/ rIn.VALIDATE_OUTCOME = Some("failure")
    \/ rIn.PLAN_OUTCOME \notin {Some("success"), Some("failure")}

SummaryHeadings ==
    { "Will be Created", "Will be Updated", "Will be Deleted", "Will be Replaced" }

\* C30: when the plan transcript is not rendered (init failed, validate
\* failed, or the plan neither succeeded nor failed), the comment holds no
\* 'Will be Created/Updated/Deleted/Replaced' list, whatever the plan
\* transcript file holds.
C30_NoSummaryWithoutPlan ==
    (rOut # << >> /\ PlanNotRendered)
        => \A h \in SummaryHeadings : ~Includes(rOut.comment, h)
====
